---- MODULE Spec2Model ----
(***************************************************************************)
(* QueryVault ingestion pipeline: the staging buffer (buffer.rs), the      *)
(* ingest endpoint (routes/ingest.rs), the flush worker                    *)
(* (tasks/aggregation.rs) and the broadcast worker (routes/ws.rs).         *)
(*                                                                         *)
(* The staging buffer is a crossbeam ArrayQueue: push and pop are          *)
(* linearizable, so each of them is one atomic step here.  pop_batch and   *)
(* the ingest loop are sequences of such steps and may interleave with     *)
(* the steps of every other task.                                          *)
(***************************************************************************)
EXTENDS Integers, Sequences, FiniteSets, TLC

\* ------------------------------------------------------------------ bounds
\* BUFFER_CAPACITY of the run (main.rs:50-53 reads it from the environment).
Capacity == 3
\* Largest number of metrics in one ingest payload.
MaxMetrics == 2
\* pop_batch(max) of the flush worker; 10_000 in aggregation.rs:22, scaled.
FlushBatchMax == 3
\* pop_batch(max) of the broadcast worker; 1000 in ws.rs:102, scaled.
BroadcastBatchMax == 2
\* Largest number of storage failures injected in one run.
MaxDbFaults == 1
\* BROADCAST_CAPACITY of the run (main.rs:55-58 reads it from the environment;
\* 10 000 by default, which like this value is not a power of two).
BroadcastCapacity == 3
\* Largest number of one-metric ingest calls in a run with WebSocket clients.
MaxLiveEvents == 5

\* WebSocket connections, and the workspace_id in the path of each.
Subscribers == {"s1", "s2"}
SubWorkspace == [s \in Subscribers |-> IF s = "s1" THEN "W1" ELSE "W2"]

\* Concurrent ingest calls (one HTTP request each).
Requests == {"r1", "r2"}
\* workspace_id values a payload may carry.
Workspaces == {"W1", "W2"}
\* The workspace_id each client writes into its metrics: r1 reports for W1,
\* the workspace of the key, r2 for W2.
PayloadWorkspace == [r \in Requests |-> IF r = "r1" THEN "W1" ELSE "W2"]

NoToken == "no-token"
NoWorkspace == "no-workspace"
\* The absent event: try_push's Ok(()) carries none, pop's None.
NoMetric == [src |-> "none", seq |-> 0, workspace_id |-> NoWorkspace]

\* QueryMetric (models.rs:24-49).  src and seq identify the submission (the
\* value moved into try_push); workspace_id is the payload's own field.
QueryMetric(r, i, w) == [src |-> r, seq |-> i, workspace_id |-> w]

\* The Authorization header values tried: absent, a non-Bearer scheme, and
\* Bearer with the known or an unknown key.
NoHeader == [present |-> FALSE, prefix |-> "", rest |-> ""]
Headers ==
  { NoHeader,
    [present |-> TRUE, prefix |-> "Basic ", rest |-> "test-api-key-12345"],
    [present |-> TRUE, prefix |-> "Bearer ", rest |-> "test-api-key-12345"],
    [present |-> TRUE, prefix |-> "Bearer ", rest |-> "unknown-key"] }

\* Database::new: the in-memory key store with its one default key.
api_keys == [k \in {"test-api-key-12345"} |-> "W1"]

Min(a, b) == IF a < b THEN a ELSE b

\* ------------------------------------------------------------ pure helpers

\* Mutant: any present Authorization value is taken as the token.
extract_bearer_token_any_scheme(headers) ==
  IF headers.present THEN headers.rest ELSE NoToken

\* extract_bearer_token: the header value with the prefix "Bearer " stripped.
extract_bearer_token(headers) ==
  IF headers.present /\ headers.prefix = "Bearer " THEN headers.rest ELSE NoToken

\* Database::verify_api_key: the workspace the key maps to, if any.
verify_api_key(api_key) ==
  IF api_key \in DOMAIN api_keys THEN api_keys[api_key] ELSE NoWorkspace

\* Mutant: a full queue still takes the element.
try_push_overfull(q, metric) ==
  [ok |-> TRUE, queue |-> Append(q, metric), returned |-> NoMetric]

\* Mutant: a full queue evicts its oldest element and hands that one back.
try_push_evict(q, metric) ==
  IF Len(q) < Capacity
    THEN [ok |-> TRUE, queue |-> Append(q, metric), returned |-> NoMetric]
    ELSE [ok |-> FALSE, queue |-> Append(Tail(q), metric), returned |-> Head(q)]

\* Mutant: the queue reports full one slot early.
try_push_early_full(q, metric) ==
  IF Len(q) + 1 < Capacity
    THEN [ok |-> TRUE, queue |-> Append(q, metric), returned |-> NoMetric]
    ELSE [ok |-> FALSE, queue |-> q, returned |-> metric]

\* MetricsBuffer::try_push = ArrayQueue::push: Ok(()) and the element is
\* appended, or Err(metric) when the queue holds capacity elements.
try_push(q, metric) ==
  IF Len(q) < Capacity
    THEN [ok |-> TRUE, queue |-> Append(q, metric), returned |-> NoMetric]
    ELSE [ok |-> FALSE, queue |-> q, returned |-> metric]

\* Mutant: the element is read but stays in the queue.
pop_peek(q) ==
  IF q = <<>> THEN [val |-> NoMetric, queue |-> q]
              ELSE [val |-> Head(q), queue |-> q]

\* Mutant: the newest element is taken.
pop_newest(q) ==
  IF q = <<>> THEN [val |-> NoMetric, queue |-> q]
              ELSE [val |-> q[Len(q)], queue |-> SubSeq(q, 1, Len(q) - 1)]

\* ArrayQueue::pop as pop_batch calls it: the oldest element, or None.
pop(q) ==
  IF q = <<>> THEN [val |-> NoMetric, queue |-> q]
              ELSE [val |-> Head(q), queue |-> Tail(q)]

\* Mutant: the range 0..=max.
in_range_inclusive(i, max) == i <= max

\* `for _ in 0..max`: iteration i runs while i < max.
in_range(i, max) == i < max

\* One iteration of pop_batch's loop, the batch so far being `batch`: the
\* loop is over when the range is exhausted or pop returns None.
pop_batch_step(q, batch, max) ==
  LET r == pop(q) IN
  IF ~in_range(Len(batch), max) \/ r.val = NoMetric
    THEN [queue |-> q, batch |-> batch, took |-> FALSE, done |-> TRUE]
    ELSE [queue |-> r.queue, batch |-> Append(batch, r.val), took |-> TRUE,
          done |-> ~in_range(Len(batch) + 1, max)]

\* Mutant: a rejected push is not counted.
count_push_no_drop(ok, ingested, dropped) ==
  IF ok THEN <<ingested + 1, dropped>> ELSE <<ingested, dropped>>

\* The match on try_push's result in ingest_metrics.
count_push(ok, ingested, dropped) ==
  IF ok THEN <<ingested + 1, dropped>> ELSE <<ingested, dropped + 1>>


\* The rows whose execute(&mut *tx) returns Ok under the fault.  A statement
\* that fails on its own ("row") leaves the others unaffected; one that the
\* server rejects ("rejected": a constraint, a bad value) puts the PostgreSQL
\* transaction into its aborted state, in which every later statement of
\* the transaction fails too.
ok_rows(n, fault) ==
  IF fault.kind = "row" THEN (1..n) \ {fault.row}
  ELSE IF fault.kind = "rejected" THEN 1..(fault.row - 1)
  ELSE 1..n

\* Mutant: a failed commit leaves the rows of the batch behind.
insert_metrics_batch_no_rollback(metrics, fault) ==
  [ok |-> fault.kind \notin {"begin", "commit"},
   inserted |-> Cardinality(ok_rows(Len(metrics), fault)),
   durable |-> IF fault.kind = "commit" THEN {metrics[j] : j \in 1..Len(metrics)}
               ELSE IF fault.kind \in {"begin", "rejected"} THEN {}
               ELSE {metrics[j] : j \in ok_rows(Len(metrics), fault)}]

\* Database::insert_metrics_batch under one injected fault: the transaction
\* cannot be opened, one row's INSERT fails, the commit fails, or none.
\* begin and commit failures leave through `?`; a row failure is logged and
\* the loop goes on.  COMMIT of an aborted transaction is answered with a
\* rollback and no error, so commit() returns Ok and nothing is durable.
insert_metrics_batch(metrics, fault) ==
  LET okRows == ok_rows(Len(metrics), fault)
  IN  IF metrics = <<>>
        THEN [ok |-> TRUE, inserted |-> 0, durable |-> {}]
      ELSE IF fault.kind = "begin"
        THEN [ok |-> FALSE, inserted |-> 0, durable |-> {}]
      ELSE IF fault.kind = "commit"
        THEN [ok |-> FALSE, inserted |-> 0, durable |-> {}]
      ELSE [ok |-> TRUE, inserted |-> Cardinality(okRows),
            durable |-> IF fault.kind = "rejected" THEN {}
                        ELSE {metrics[j] : j \in okRows}]

\* The faults that can be injected into an insert of this batch.
DbFaults(metrics) ==
  {[kind |-> "none", row |-> 0], [kind |-> "begin", row |-> 0],
   [kind |-> "commit", row |-> 0]}
    \cup {[kind |-> k, row |-> j] : k \in {"row", "rejected"}, j \in 1..Len(metrics)}

\* Mutant: a tick starts an iteration whatever the worker is doing.
ticker_ready_any(pc) == TRUE

\* A worker is one task running `loop { interval.tick().await; ... }`: it is
\* back at its ticker only when the body of the previous iteration has
\* returned, and a tick that fired meanwhile is taken then.
ticker_ready(pc) == pc = "tick"

\* Mutant: the ticker goes on firing while the runtime is torn down.
resumes_always(shutting_down) == TRUE

\* An await resolves only while the runtime still polls the task: once the
\* runtime is being dropped a task runs on to its next await and is dropped
\* there.
resumes(shutting_down) == ~shutting_down

\* ------------------------------------------------- tokio::sync::broadcast
\* broadcast::channel(capacity) allocates capacity.next_power_of_two() slots.
RECURSIVE pow2_from(_, _)
pow2_from(p, n) == IF p >= n THEN p ELSE pow2_from(2 * p, n)
next_power_of_two(n) == pow2_from(1, n)

\* Mutant: the ring has exactly `capacity` slots.
channel_exact(capacity) == [pos |-> 0, ring |-> <<>>, slots |-> capacity]

\* The channel as AppState::new creates it: pos counts the values stored so
\* far, ring holds the most recent of them (at most `slots`), oldest first.
channel(capacity) ==
  [pos |-> 0, ring |-> <<>>, slots |-> next_power_of_two(capacity)]

\* Position of the oldest value the ring still holds.
oldest(ch) == ch.pos - Len(ch.ring)

\* Mutant: the new value is put in front of the values held.
send_front(ch, rx_cnt, value) ==
  IF rx_cnt = 0 THEN ch
  ELSE LET all == <<value>> \o ch.ring
       IN  [ch EXCEPT !.pos = @ + 1,
                      !.ring = IF Len(all) > ch.slots THEN SubSeq(all, 1, ch.slots)
                               ELSE all]

\* Sender::send with rx_cnt receivers alive: with none the value is handed
\* back in Err and nothing is stored; otherwise it takes the next slot,
\* overwriting the oldest value when the ring is full.  It never waits.
send(ch, rx_cnt, value) ==
  IF rx_cnt = 0 THEN ch
  ELSE LET all == Append(ch.ring, value)
       IN  [ch EXCEPT !.pos = @ + 1,
                      !.ring = IF Len(all) > ch.slots THEN Tail(all) ELSE all]

\* Sender::subscribe: the new receiver starts at the next value to be sent.
subscribe(ch) == ch.pos

\* Mutant: Lagged reports one item more than were missed.
lagged_count_plus_one(ch, next) == oldest(ch) - next + 1

\* The count carried by RecvError::Lagged: the values between the receiver's
\* cursor and the oldest one still held.
lagged_count(ch, next) == oldest(ch) - next

\* Receiver::recv for a receiver whose cursor is `next`; `closed` holds when
\* every Sender has been dropped.  "pending" is the await that has not
\* resolved.
recv(ch, next, closed) ==
  IF next < oldest(ch)
    THEN [kind |-> "lagged", count |-> lagged_count(ch, next), value |-> <<>>,
          next |-> oldest(ch)]
  ELSE IF next < ch.pos
    THEN [kind |-> "ok", count |-> 0, value |-> ch.ring[next - oldest(ch) + 1],
          next |-> next + 1]
  ELSE IF closed
    THEN [kind |-> "closed", count |-> 0, value |-> <<>>, next |-> next]
  ELSE [kind |-> "pending", count |-> 0, value |-> <<>>, next |-> next]

\* ------------------------------------------------------------------- state
VARIABLES
  queue,      \* MetricsBuffer.queue: the ArrayQueue's contents, oldest first
  req,        \* per ingest call: its inputs, position and counters
  worker,     \* flush / broadcast worker: position and the batch it holds
  published,  \* every (workspace_id, metric) passed to broadcast_tx.send
  stored,     \* rows of query_metrics that are durable
  dbFaults,   \* storage failures injected so far
  accepted,   \* history: metrics for which try_push returned Ok(())
  rejected,   \* history: metrics handed back in try_push's Err
  popLog,     \* history: per worker, every metric its pop_batch calls returned
  popObs,     \* history: per pop_batch call, the queue at its start and
              \*          whether anyone else changed the queue during it
  chan,       \* AppState.broadcast_tx's channel: position and ring
  senders,    \* who holds a Sender of the channel
  subs,       \* per WebSocket connection: handle_socket and its two tasks
  shutdown,   \* the runtime is being torn down
  lost,       \* history: metrics of batches whose insert returned Err
  reported,   \* history: sum of the counts insert_metrics_batch returned in Ok
  det,        \* the anomaly detector, the rows it reads and the rows it stores
  emb,        \* the embedding worker, the query texts and query_embeddings
  hsh,        \* query texts handed to normalize_query and query_hash
  ret,        \* the retention pruner, its clock and the raw events' ages
  agg         \* a request of the HTTP layer and what its handler made of it

liveVars == <<chan, senders, subs, shutdown>>
\* The ingest pipeline, the live channel and the connections.
pipeVars == <<queue, req, worker, published, stored, dbFaults, accepted, rejected,
              popLog, popObs, chan, senders, subs, shutdown, lost, reported>>
\* The parts of the service that do not touch the buffer or the channel.
auxVars == <<det, emb, hsh, ret, agg>>
vars == <<queue, req, worker, published, stored, dbFaults, accepted, rejected,
          popLog, popObs, chan, senders, subs, shutdown, lost, reported,
          det, emb, hsh, ret, agg>>

Workers == {"flush", "broadcast"}

\* The payload of request r: n metrics, all carrying workspace_id w.
Payload(r, n, w) == [i \in 1..n |-> QueryMetric(r, i, w)]

\* An ingest call: headers, the part of payload.metrics the loop has not
\* consumed yet, workspace_id (what verify_api_key returned), total, ingested,
\* dropped, and the status answered.  k, sawPop, sawPush and alone are
\* history: the buffer length at the call's first try_push, whether a pop /
\* another call's try_push ran between its first and its last try_push, and
\* (once done) whether the call ran with neither.
NewRequest ==
  [pc |-> "new", headers |-> NoHeader, metrics |-> <<>>, workspace_id |-> NoWorkspace,
   total |-> 0, ingested |-> 0, dropped |-> 0, status |-> 0,
   k |-> 0, sawPop |-> FALSE, sawPush |-> FALSE, alone |-> FALSE]

NoObs == [snap |-> <<>>, clean |-> TRUE, left |-> 0]

\* The holders of a Sender outside the WebSocket handlers: the AppState in the
\* router (main.rs:160), the broadcast worker's clone (main.rs:96-101) and
\* the anomaly detector's (main.rs:125).
ProcessHolders == {"state", "broadcast", "anomaly"}

\* A WebSocket connection.  handler is handle_socket: not upgraded yet, at its
\* select!, returned, or dropped with the runtime.  send_task is at its
\* recv().await or has ended (channel closed, frame send failed, dropped);
\* recv_task is at receiver.next().await or has ended (close frame, transport
\* error, dropped).  next is broadcast_rx's cursor and frames what was written
\* to the socket.  History: from / fromPub are the channel position and the
\* number of send calls at subscribe; seen counts the values recv returned
\* and lagged sums the counts of its Lagged errors.
NoConnection ==
  [handler |-> "none", send_task |-> "none", recv_task |-> "none", next |-> 0,
   frames |-> <<>>, from |-> 0, fromPub |-> 0, seen |-> 0, lagged |-> 0]

\* Receivers alive: one per send_task that has not ended.
rx_cnt(sb) == Cardinality({s \in Subscribers : sb[s].send_task = "recv"})

\* A part of the service that a specification leaves out.
Unused == [pc |-> "unused"]

\* The pipeline after AppState::new and before any task has run.
PipelineInit ==
  /\ queue = <<>>
  /\ req = [r \in Requests |-> NewRequest]
  /\ worker = [w \in Workers |-> [pc |-> "tick", batch |-> <<>>]]
  /\ published = <<>>
  /\ stored = {}
  /\ dbFaults = 0
  /\ accepted = {}
  /\ rejected = {}
  /\ popLog = [w \in Workers |-> <<>>]
  /\ popObs = [w \in Workers |-> NoObs]
  /\ chan = channel(BroadcastCapacity)
  /\ senders = ProcessHolders
  /\ subs = [s \in Subscribers |-> NoConnection]
  /\ shutdown = FALSE
  /\ lost = {}
  /\ reported = 0

Init ==
  /\ PipelineInit
  /\ det = Unused /\ emb = Unused /\ hsh = Unused /\ ret = Unused /\ agg = Unused

\* The ingest call has made its first try_push and not yet its last.
InPushLoop(rec) == rec.pc = "push" /\ rec.ingested + rec.dropped > 0

\* History bookkeeping.  Request `by` called try_push while other ingest
\* calls were in their push loop.
NotePush(rq, by) ==
  [r \in Requests |->
     IF r # by /\ InPushLoop(rq[r]) /\ ~rq[r].sawPop
       THEN [rq[r] EXCEPT !.sawPush = TRUE] ELSE rq[r]]
\* A worker popped an element while ingest calls were in their push loop
\* (what k and sawPush held is of no use after that and is cleared).
NotePop(rq) ==
  [r \in Requests |->
     IF InPushLoop(rq[r])
       THEN [rq[r] EXCEPT !.sawPop = TRUE, !.sawPush = FALSE, !.k = 0] ELSE rq[r]]
\* The queue was changed by someone other than worker `who`.
NoteMutation(obs, who) ==
  [w \in Workers |->
     IF w # who /\ worker[w].pc = "pop" THEN [obs[w] EXCEPT !.clean = FALSE, !.snap = <<>>]
                                        ELSE obs[w]]

\* The ingest call returns 202 with its counters.
Accepted202(rec) ==
  [rec EXCEPT !.pc = "done", !.status = 202,
              !.alone = ~rec.sawPop /\ ~rec.sawPush,
              !.k = 0, !.sawPop = FALSE, !.sawPush = FALSE]

\* ---------------------------------------------------------- ingest_metrics
\* The handler runs up to its push loop: the bearer token is extracted and
\* verified (401 if missing or unknown); an empty payload is answered at once.
Receive(r) ==
  /\ req[r].pc = "new"
  /\ \E h \in Headers, n \in 0..MaxMetrics :
       LET w == PayloadWorkspace[r]
           api_key == extract_bearer_token(h)
           ws == verify_api_key(api_key)
           denied == [req[r] EXCEPT !.headers = h, !.pc = "done", !.status = 401]
           admitted == [req[r] EXCEPT !.headers = h, !.workspace_id = ws,
                                      !.metrics = Payload(r, n, w), !.total = n]
       IN  req' = [req EXCEPT ![r] =
                     IF api_key = NoToken THEN denied
                     ELSE IF ws = NoWorkspace THEN denied
                     ELSE IF n = 0 THEN Accepted202(admitted)
                     ELSE [admitted EXCEPT !.pc = "push"]]
  /\ UNCHANGED <<auxVars, queue, worker, published, stored, dbFaults, accepted, rejected,
                 popLog, popObs, liveVars, lost, reported>>

\* One iteration of `for metric in payload.metrics`; after the last one the
\* call returns.
Push(r) ==
  /\ req[r].pc = "push"
  /\ LET metric == Head(req[r].metrics)
         res == try_push(queue, metric)
         cnt == count_push(res.ok, req[r].ingested, req[r].dropped)
         rec == [req[r] EXCEPT !.metrics = Tail(@), !.ingested = cnt[1],
                               !.dropped = cnt[2],
                               !.k = IF InPushLoop(req[r]) THEN @ ELSE Len(queue)]
     IN  /\ queue' = res.queue
         /\ req' = [NotePush(req, r) EXCEPT ![r] =
                      IF rec.metrics = <<>> THEN Accepted202(rec) ELSE rec]
         /\ accepted' = IF res.ok THEN accepted \cup {metric} ELSE accepted
         /\ rejected' = IF res.ok THEN rejected ELSE rejected \cup {res.returned}
         /\ popObs' = IF res.queue # queue THEN NoteMutation(popObs, "none") ELSE popObs
  /\ UNCHANGED <<auxVars, worker, published, stored, dbFaults, popLog, liveVars, lost,
                 reported>>

\* ---------------------------------------------------------------- pop_batch
\* One queue.pop() of worker w's pop_batch(max).  `first` is the call's first
\* iteration, made when the ticker fires.  When the loop ends the batch is
\* returned: the worker goes on with it (`next`), or back to its ticker when
\* the batch is empty.
PopBatchStep(w, max, next, first) ==
  LET obs == IF first THEN [snap |-> queue, clean |-> TRUE, left |-> 0] ELSE popObs[w]
      s == pop_batch_step(queue, worker[w].batch, max)
      noted == IF s.took THEN NoteMutation(popObs, w) ELSE popObs
  IN  /\ queue' = s.queue
      /\ popLog' = IF s.took THEN [popLog EXCEPT ![w] = Append(@, s.batch[Len(s.batch)])]
                             ELSE popLog
      /\ req' = IF s.took THEN NotePop(req) ELSE req
      /\ worker' = [worker EXCEPT ![w] =
                      IF ~s.done THEN [pc |-> "pop", batch |-> s.batch]
                      ELSE IF s.batch = <<>> THEN [pc |-> "tick", batch |-> <<>>]
                      ELSE [pc |-> next, batch |-> s.batch]]
      /\ popObs' = [noted EXCEPT ![w] =
                      IF ~s.done THEN obs
                      ELSE IF s.batch = <<>> THEN NoObs
                      ELSE [snap |-> <<>>, clean |-> obs.clean, left |-> Len(s.queue)]]
      /\ UNCHANGED <<auxVars, published, stored, dbFaults, accepted, rejected, liveVars,
                     lost, reported>>

\* --------------------------------------------------------- aggregation_task
\* interval.tick() fires: pop_batch(10_000) starts.
FlushTick ==
  /\ ticker_ready(worker["flush"].pc)
  /\ resumes(shutdown)
  /\ PopBatchStep("flush", FlushBatchMax, "insert", TRUE)

FlushPop ==
  /\ worker["flush"].pc = "pop"
  /\ PopBatchStep("flush", FlushBatchMax, "insert", FALSE)

\* db.insert_metrics_batch(&batch): whatever the result, it is only logged
\* and the worker returns to its ticker; the batch is dropped.
FlushInsert ==
  /\ worker["flush"].pc = "insert"
  /\ resumes(shutdown)
  /\ \E fault \in DbFaults(worker["flush"].batch) :
       LET batch == worker["flush"].batch
           res == insert_metrics_batch(batch, fault)
       IN  /\ fault.kind # "none" => dbFaults < MaxDbFaults
           /\ dbFaults' = IF fault.kind = "none" THEN dbFaults ELSE dbFaults + 1
           /\ stored' = stored \cup res.durable
           /\ lost' = IF res.ok THEN lost ELSE lost \cup {batch[j] : j \in 1..Len(batch)}
           /\ reported' = IF res.ok THEN reported + res.inserted ELSE reported
  /\ worker' = [worker EXCEPT !["flush"] = [pc |-> "tick", batch |-> <<>>]]
  /\ popObs' = [popObs EXCEPT !["flush"] = NoObs]
  /\ UNCHANGED <<auxVars, queue, req, published, accepted, rejected, popLog, liveVars>>

\* ------------------------------------------------------------ broadcast_task
\* interval.tick() fires: pop_batch(1000) starts.
BroadcastTick ==
  /\ ticker_ready(worker["broadcast"].pc)
  /\ resumes(shutdown)
  /\ PopBatchStep("broadcast", BroadcastBatchMax, "send", TRUE)

BroadcastPop ==
  /\ worker["broadcast"].pc = "pop"
  /\ PopBatchStep("broadcast", BroadcastBatchMax, "send", FALSE)

\* One iteration of `for metric in batch`: broadcast_tx.send((workspace_id, metric)).
BroadcastSend ==
  /\ worker["broadcast"].pc = "send"
  /\ LET metric == Head(worker["broadcast"].batch)
         rest == Tail(worker["broadcast"].batch)
         workspace_id == metric.workspace_id
     IN  /\ published' = Append(published, <<workspace_id, metric>>)
         /\ chan' = send(chan, rx_cnt(subs), <<workspace_id, metric>>)
         /\ worker' = [worker EXCEPT !["broadcast"] =
                         IF rest = <<>> THEN [pc |-> "tick", batch |-> <<>>]
                                        ELSE [pc |-> "send", batch |-> rest]]
         /\ popObs' = IF rest = <<>> THEN [popObs EXCEPT !["broadcast"] = NoObs] ELSE popObs
  /\ UNCHANGED <<auxVars, queue, req, stored, dbFaults, accepted, rejected, popLog,
                 senders, subs, shutdown, lost, reported>>

Next ==
  \/ \E r \in Requests : Receive(r)
  \/ \E r \in Requests : Push(r)
  \/ FlushTick
  \/ FlushPop
  \/ FlushInsert
  \/ BroadcastTick
  \/ BroadcastPop
  \/ BroadcastSend

Spec == Init /\ [][Next]_vars

\* ------------------------------------------------------------- handle_socket
\* Mutant: every event is forwarded, whatever its workspace.
forwards_all(metric_workspace_id, workspace_id) == TRUE

\* `if metric_workspace_id == workspace_id` in send_task.
forwards(metric_workspace_id, workspace_id) == metric_workspace_id = workspace_id

\* Mutant: the Lagged arm leaves the loop.
on_lagged_break(count) == "lag_closed"

\* The Lagged arm of send_task: the count is logged and the loop goes on.
on_lagged(count) == "recv"

\* One iteration of send_task's loop, for what recv() returned: a value is
\* written to the socket when it is of the connection's workspace (the loop
\* is left when that write fails), Lagged is logged, Closed leaves the loop.
send_task_match(c, r, workspace_id, sink_ok) ==
  IF r.kind = "ok"
    THEN IF forwards(r.value[1], workspace_id)
           THEN IF sink_ok
                  THEN [c EXCEPT !.next = r.next, !.seen = @ + 1,
                                 !.frames = Append(@, r.value[2])]
                  ELSE [c EXCEPT !.next = r.next, !.seen = @ + 1,
                                 !.send_task = "send_failed"]
           ELSE [c EXCEPT !.next = r.next, !.seen = @ + 1]
  ELSE IF r.kind = "lagged"
    THEN [c EXCEPT !.next = r.next, !.lagged = @ + r.count,
                   !.send_task = on_lagged(r.count)]
  ELSE [c EXCEPT !.send_task = "closed"]

\* What a client can make receiver.next() yield.
Messages == {"close", "ping", "text", "error"}

\* The match in recv_task: a close frame and a transport error leave the
\* loop, everything else is ignored.
recv_task_match(msg) ==
  IF msg = "close" THEN "close" ELSE IF msg = "error" THEN "error" ELSE "next"

\* A spawned task has returned (or was dropped): its JoinHandle is ready.
finished(task) == task \notin {"none", "recv", "next"}

\* Mutant: the handler waits for both tasks.
select_ready_both(send_task, recv_task) == finished(send_task) /\ finished(recv_task)

\* tokio::select! over the two JoinHandles: ready when either is.
select_ready(send_task, recv_task) == finished(send_task) \/ finished(recv_task)

\* Mutant: the handler has no Sender of its own.
holds_none(holders, s) == holders

\* handle_socket(socket, state, workspace_id) owns a clone of AppState, and
\* with it a clone of broadcast_tx, until it returns.
holds(holders, s) == holders \cup {s}

\* ws_handler upgrades the connection; handle_socket, holding its clone of
\* AppState, subscribes to the channel and spawns send_task and recv_task.
Connect(s) ==
  /\ subs[s].handler = "none"
  /\ resumes(shutdown)
  /\ subs' = [subs EXCEPT ![s] =
                [NoConnection EXCEPT !.handler = "select", !.send_task = "recv",
                                     !.recv_task = "next", !.next = subscribe(chan),
                                     !.from = subscribe(chan),
                                     !.fromPub = Len(published)]]
  /\ senders' = holds(senders, s)
  /\ UNCHANGED <<auxVars, queue, req, worker, published, stored, dbFaults, accepted,
                 rejected, popLog, popObs, chan, shutdown, lost, reported>>

\* broadcast_rx.recv().await resolves and send_task handles the result.
SendTaskRecv(s) ==
  /\ subs[s].send_task = "recv"
  /\ resumes(shutdown)
  /\ LET r == recv(chan, subs[s].next, senders = {})
     IN  /\ r.kind # "pending"
         /\ \E sink_ok \in BOOLEAN :
              /\ ~sink_ok => (r.kind = "ok" /\ forwards(r.value[1], SubWorkspace[s]))
              /\ subs' = [subs EXCEPT ![s] =
                            send_task_match(subs[s], r, SubWorkspace[s], sink_ok)]
  /\ UNCHANGED <<auxVars, queue, req, worker, published, stored, dbFaults, accepted,
                 rejected, popLog, popObs, chan, senders, shutdown, lost, reported>>

\* receiver.next().await yields a message and recv_task handles it.
RecvTaskNext(s) ==
  /\ subs[s].recv_task = "next"
  /\ resumes(shutdown)
  /\ \E msg \in Messages :
       subs' = [subs EXCEPT ![s].recv_task = recv_task_match(msg)]
  /\ UNCHANGED <<auxVars, queue, req, worker, published, stored, dbFaults, accepted,
                 rejected, popLog, popObs, chan, senders, shutdown, lost, reported>>

\* The select! of handle_socket resolves: the handler logs and returns,
\* dropping its AppState and the two JoinHandles (which detaches the task
\* that is still running).
HandlerReturn(s) ==
  /\ subs[s].handler = "select"
  /\ resumes(shutdown)
  /\ select_ready(subs[s].send_task, subs[s].recv_task)
  /\ subs' = [subs EXCEPT ![s].handler = "returned"]
  /\ senders' = senders \ {s}
  /\ UNCHANGED <<auxVars, queue, req, worker, published, stored, dbFaults, accepted,
                 rejected, popLog, popObs, chan, shutdown, lost, reported>>

\* ------------------------------------------------------------------ shutdown
\* main has no shutdown path of its own: the tasks end when the runtime that
\* main started is dropped.  The server future goes first, and with it the
\* router's AppState.
Shutdown ==
  /\ ~shutdown
  /\ shutdown' = TRUE
  /\ senders' = senders \ {"state"}
  /\ UNCHANGED <<auxVars, queue, req, worker, published, stored, dbFaults, accepted,
                 rejected, popLog, popObs, chan, subs, lost, reported>>

\* The runtime drops worker w at the await it is parked on: the ticker, or
\* for the flush worker the insert (whose transaction is rolled back).  The
\* broadcast worker's AppState goes with it.
StopWorker(w) ==
  /\ shutdown
  /\ worker[w].pc \in {"tick", "insert"}
  /\ worker' = [worker EXCEPT ![w] = [pc |-> "stopped", batch |-> <<>>]]
  /\ popObs' = [popObs EXCEPT ![w] = NoObs]
  /\ senders' = IF w = "broadcast" THEN senders \ {"broadcast"} ELSE senders
  /\ UNCHANGED <<auxVars, queue, req, published, stored, dbFaults, accepted, rejected,
                 popLog, chan, subs, shutdown, lost, reported>>

\* The runtime drops the anomaly detector, and anomaly_tx with it.
StopAnomaly ==
  /\ shutdown
  /\ "anomaly" \in senders
  /\ senders' = senders \ {"anomaly"}
  /\ UNCHANGED <<auxVars, queue, req, worker, published, stored, dbFaults, accepted,
                 rejected, popLog, popObs, chan, subs, shutdown, lost, reported>>

\* The runtime drops what is left of connection s: the handler at its
\* select! with its AppState, and the tasks parked on recv() and next().
DropConnection(s) ==
  /\ shutdown
  /\ \/ subs[s].handler = "select"
     \/ subs[s].send_task = "recv"
     \/ subs[s].recv_task = "next"
  /\ subs' = [subs EXCEPT ![s] =
                [@ EXCEPT !.handler = IF @ = "select" THEN "dropped" ELSE @,
                          !.send_task = IF @ = "recv" THEN "dropped" ELSE @,
                          !.recv_task = IF @ = "next" THEN "dropped" ELSE @]]
  /\ senders' = senders \ {s}
  /\ UNCHANGED <<auxVars, queue, req, worker, published, stored, dbFaults, accepted,
                 rejected, popLog, popObs, chan, shutdown, lost, reported>>

\* ------------------------------------------------ the service with clients
\* The Authorization header of a client that holds the key.
ValidHeader == [present |-> TRUE, prefix |-> "Bearer ", rest |-> "test-api-key-12345"]

\* The workspace_id in the metric of the n-th one-metric call: the clients
\* of the two workspaces report in turn.
LiveWorkspace(n) == IF n % 2 = 1 THEN "W1" ELSE "W2"

\* A whole ingest call with a valid key and one metric: its only step on
\* shared state is the one try_push.
LiveIngest ==
  /\ resumes(shutdown)
  /\ Cardinality(accepted \cup rejected) < MaxLiveEvents
  /\ verify_api_key(extract_bearer_token(ValidHeader)) # NoWorkspace
  /\ \E n \in {Cardinality(accepted \cup rejected) + 1} :
       LET metric == QueryMetric("live", n, LiveWorkspace(n))
           res == try_push(queue, metric)
       IN  /\ queue' = res.queue
           /\ accepted' = IF res.ok THEN accepted \cup {metric} ELSE accepted
           /\ rejected' = IF res.ok THEN rejected ELSE rejected \cup {res.returned}
           /\ popObs' = IF res.queue # queue THEN NoteMutation(popObs, "none") ELSE popObs
  /\ UNCHANGED <<auxVars, req, worker, published, stored, dbFaults, popLog, liveVars,
                 lost, reported>>

\* The service with WebSocket clients: one-metric ingest calls, the broadcast
\* worker and the connections.  The flush worker is left out: all it does to
\* the live path is to take events out of the buffer, which the broadcast
\* worker then never sees, and an event that is never ingested does the same.
LiveNext ==
  \/ LiveIngest
  \/ BroadcastTick
  \/ BroadcastPop
  \/ BroadcastSend
  \/ \E s \in Subscribers : Connect(s)
  \/ \E s \in Subscribers : SendTaskRecv(s)
  \/ \E s \in Subscribers : RecvTaskNext(s)
  \/ \E s \in Subscribers : HandlerReturn(s)

SpecLive == Init /\ [][LiveNext]_vars

\* The pipeline while its runtime is torn down: one-metric ingest calls, both
\* workers, and the drops of the process's own tasks.
StopNext ==
  \/ LiveIngest
  \/ FlushTick
  \/ FlushPop
  \/ FlushInsert
  \/ BroadcastTick
  \/ BroadcastPop
  \/ BroadcastSend
  \/ Shutdown
  \/ \E w \in Workers : StopWorker(w)
  \/ StopAnomaly

SpecStop == Init /\ [][StopNext]_vars

\* The live channel while the runtime is torn down: one-metric ingest calls,
\* the broadcast worker, connections that are opened and then sit idle, and
\* the drops.
CloseNext ==
  \/ LiveIngest
  \/ BroadcastTick
  \/ BroadcastPop
  \/ BroadcastSend
  \/ \E s \in Subscribers : Connect(s)
  \/ Shutdown
  \/ \E w \in Workers : StopWorker(w)
  \/ StopAnomaly
  \/ \E s \in Subscribers : DropConnection(s)

SpecClose == Init /\ [][CloseNext]_vars


\* ===================================================================== claims
Range(sq) == {sq[j] : j \in 1..Len(sq)}
NoDuplicates(sq) == \A a, b \in 1..Len(sq) : a # b => sq[a] # sq[b]
\* Metrics of one producer appear in sq in the order they were submitted.
ProducerOrder(sq) ==
  \A a, b \in 1..Len(sq) : (a < b /\ sq[a].src = sq[b].src) => sq[a].seq < sq[b].seq

\* This step is a try_push of request r (of the metric at the head of what is
\* left of its payload).
PushBy(r) == req[r].pc = "push" /\ Len(req'[r].metrics) < Len(req[r].metrics)

\* This step makes request r return 202.
Returns202(r) == req[r].pc # "done" /\ req'[r].pc = "done" /\ req'[r].status = 202

\* This step makes worker w's pop_batch return a batch that is not empty.
PopBatchReturns(w, next) == worker[w].pc \in {"tick", "pop"} /\ worker'[w].pc = next

\* C1: the buffer never holds more than capacity events, and a try_push is
\* rejected exactly when the buffer holds capacity events at that push (and
\* accepted exactly when it holds fewer).
C1_BufferBound ==
  /\ [](Len(queue) \in 0..Capacity)
  /\ [][\A r \in Requests : PushBy(r) =>
          LET m == Head(req[r].metrics) IN
          /\ (m \in rejected') <=> (Len(queue) = Capacity)
          /\ (m \in accepted') <=> (Len(queue) < Capacity)
          /\ (req'[r].dropped = req[r].dropped + 1) <=> (Len(queue) = Capacity)]_vars

\* C1 witness: a full buffer after one call had a push accepted and a push rejected.
C1_Witness ==
  /\ Len(queue) = Capacity
  /\ \E r \in Requests : req[r].ingested > 0 /\ req[r].dropped > 0

\* C2: whatever the flush and broadcast workers' pop_batch calls returned was
\* accepted by an earlier try_push, and no accepted metric was returned twice,
\* by the same or by different calls.
C2_NoLossNoDuplicate ==
  LET all == popLog["flush"] \o popLog["broadcast"] IN
  /\ Range(all) \subseteq accepted
  /\ NoDuplicates(all)
  /\ \A w \in Workers : Range(worker[w].batch) \subseteq Range(popLog[w])

\* C2 witness: both workers have popped, while a third metric waits in the buffer.
C2_Witness ==
  /\ popLog["flush"] # <<>>
  /\ popLog["broadcast"] # <<>>
  /\ queue # <<>>

\* C3: metrics of one producer are queued in the order submitted, and each
\* consumer is returned them in that order, within a batch and across its
\* successive pop_batch calls.
C3_FifoPerProducer ==
  /\ ProducerOrder(queue)
  /\ \A w \in Workers : ProducerOrder(popLog[w]) /\ ProducerOrder(worker[w].batch)

\* C3 witness: the broadcast worker holds one batch with two metrics of one
\* producer, and the flush worker got two metrics of another producer in two
\* pop_batch calls (the first is stored, the second is in the batch it holds).
C3_Witness ==
  /\ Len(worker["broadcast"].batch) = 2
  /\ worker["broadcast"].batch[1].src = worker["broadcast"].batch[2].src
  /\ Len(popLog["flush"]) = 2
  /\ popLog["flush"][1].src = popLog["flush"][2].src
  /\ popLog["flush"][1] \in stored
  /\ worker["flush"].batch = <<popLog["flush"][2]>>

\* Every ingest call has returned, the buffer is empty and both workers are
\* between ticks: nothing more can happen to any accepted metric.
Quiescent ==
  /\ \A r \in Requests : req[r].pc = "done"
  /\ queue = <<>>
  /\ \A w \in Workers : worker[w].pc = "tick"

\* C4 (as claimed): every accepted metric is handed to the storage insert by
\* the flush worker and published on the live channel by the broadcast
\* worker; once the pipeline has drained, both have happened.
C4_BothDestinations ==
  Quiescent =>
    \A e \in accepted :
      /\ e \in Range(popLog["flush"])
      /\ \E j \in 1..Len(published) : published[j][2] = e

\* C5 (as claimed): every accepted metric carries the workspace_id that the
\* API key of its request resolved to.
C5_WorkspaceMatchesKey ==
  \A e \in accepted : e.workspace_id = req[e.src].workspace_id

\* C6: a call answered 202 reports ingested + dropped = the number of metrics
\* in its payload, ingested being the number of its try_push calls that were
\* accepted and dropped the number that were rejected.
C6_IngestCounting ==
  \A r \in Requests :
    /\ req[r].ingested = Cardinality({e \in accepted : e.src = r})
    /\ req[r].dropped = Cardinality({e \in rejected : e.src = r})
    /\ req[r].status = 202 => req[r].ingested + req[r].dropped = req[r].total
    /\ req[r].pc = "push" =>
         req[r].ingested + req[r].dropped + Len(req[r].metrics) = req[r].total

\* C6 witness: a call that ran concurrently with pops or other pushes
\* returned 202 with accepted and rejected metrics.
C6_Witness ==
  \E r \in Requests :
    /\ req[r].status = 202 /\ ~req[r].alone
    /\ req[r].ingested > 0 /\ req[r].dropped > 0

\* The outcome C7 describes for request r returning in this step, the buffer
\* having held k metrics when the call started.
OverflowOutcome(r, k) ==
  LET n == req'[r].total
      took == Min(n, Capacity - k)
  IN  /\ req'[r].ingested = took
      /\ req'[r].dropped = n - took
      /\ {e \in accepted' : e.src = r} = {e \in accepted' : e.src = r /\ e.seq <= took}
      /\ Cardinality({e \in accepted' : e.src = r}) = took
      /\ Len(queue') = Min(Capacity, k + n)
StartLen(r) == IF InPushLoop(req[r]) THEN req[r].k ELSE Len(queue)

\* C7 (as claimed): with no concurrent pop, a request of n metrics into a
\* buffer of capacity c holding k returns 202 with ingested = min(n, c-k),
\* dropped = n - ingested, the first min(n, c-k) metrics accepted, and the
\* buffer then holds min(c, k+n).
C7_OverflowNoPop ==
  [][\A r \in Requests :
       (Returns202(r) /\ ~req[r].sawPop) => OverflowOutcome(r, StartLen(r))]_vars

\* C7 (amended): the same, with no concurrent pop and no concurrent try_push
\* of another ingest call.
C7_OverflowAlone ==
  [][\A r \in Requests :
       (Returns202(r) /\ ~req[r].sawPop /\ ~req[r].sawPush)
         => OverflowOutcome(r, StartLen(r))]_vars

\* C7 witness: a call that ran alone returned 202 with some metrics accepted
\* and the rest dropped, the buffer being full.
C7_Witness ==
  \E r \in Requests :
    /\ req[r].status = 202 /\ req[r].alone
    /\ req[r].ingested > 0 /\ req[r].dropped > 0
    /\ Len(queue) = Capacity

\* The request carries no bearer token, or a key that no workspace has.
BadCredentials(h) ==
  \/ ~h.present
  \/ h.prefix # "Bearer "
  \/ h.rest \notin DOMAIN api_keys

\* C8: a request without a bearer token or with an unknown key is answered
\* 401, and try_push is never called for any of its metrics.
C8_UnauthorizedPushesNothing ==
  \A r \in Requests :
    (req[r].pc # "new" /\ BadCredentials(req[r].headers)) =>
      /\ req[r].pc = "done" /\ req[r].status = 401
      /\ \A e \in accepted \cup rejected \cup Range(queue) : e.src # r

\* C8 witness: one call was answered 401 for an unknown key and another for a
\* missing bearer token.
C8_Witness ==
  \E r1, r2 \in Requests :
    /\ req[r1].status = 401 /\ req[r1].headers.rest = "unknown-key"
    /\ req[r2].status = 401 /\ req[r2].headers.prefix # "Bearer "

\* C9: a rejected try_push hands back the metric it was given and leaves the
\* buffer as it was; an accepted one appends the metric; and an accepted
\* metric stays in the buffer until a pop_batch returns it.
C9_RejectedHandedBack ==
  /\ [][\A r \in Requests : PushBy(r) =>
          LET m == Head(req[r].metrics) IN
          IF m \in accepted'
            THEN queue' = Append(queue, m) /\ rejected' = rejected
            ELSE /\ queue' = queue
                 /\ rejected' = rejected \cup {m}
                 /\ Len(queue) = Capacity]_vars
  /\ [](\A e \in accepted :
          e \in Range(queue) \cup Range(popLog["flush"]) \cup Range(popLog["broadcast"]))

\* C9 witness: a metric was handed back by a full buffer.
C9_Witness ==
  /\ rejected # {}
  /\ Len(queue) = Capacity
  /\ rejected \cap accepted = {}

\* The result C10 describes for worker w's pop_batch(max) returning in this
\* step, the buffer having held `held` when the call started.
OldestFirst(w, max, held) ==
  LET n == Len(held)
      m == Min(max, n)
  IN  /\ worker'[w].batch = SubSeq(held, 1, m)
      /\ queue' = SubSeq(held, m + 1, n)
HeldAtStart(w) == IF worker[w].pc = "tick" THEN queue ELSE popObs[w].snap
CleanSoFar(w) == worker[w].pc = "tick" \/ popObs[w].clean

\* C10: with no concurrent mutation, pop_batch(max) on a buffer holding n
\* metrics returns the oldest min(max, n) in insertion order and leaves the
\* other n - min(max, n) in the buffer in their order.
C10_PopBatchOldestFirst ==
  [][/\ (PopBatchReturns("flush", "insert") /\ CleanSoFar("flush"))
          => OldestFirst("flush", FlushBatchMax, HeldAtStart("flush"))
     /\ (PopBatchReturns("broadcast", "send") /\ CleanSoFar("broadcast"))
          => OldestFirst("broadcast", BroadcastBatchMax, HeldAtStart("broadcast"))]_vars

\* C10 witness: an undisturbed pop_batch returned max metrics and left some
\* behind, and another undisturbed one returned fewer than max.
C10_Witness ==
  /\ worker["broadcast"].pc = "send"
  /\ Len(worker["broadcast"].batch) = BroadcastBatchMax
  /\ popObs["broadcast"].clean /\ popObs["broadcast"].left > 0
  /\ worker["flush"].pc = "insert"
  /\ Len(worker["flush"].batch) < FlushBatchMax
  /\ popObs["flush"].clean


\* =============================================================== live channel
\* The metrics among the published pairs pairs[a..b] that carry workspace w.
OfWorkspace(pairs, a, b, w) ==
  LET hit(p) == p[1] = w
      metricOf(sq) == [j \in 1..Len(sq) |-> sq[j][2]]
  IN  metricOf(SelectSeq(SubSeq(pairs, a, b), hit))

\* C11: every frame written to the socket of a connection opened for
\* workspace W carries an event whose workspace_id is W.
C11_OnlyOwnWorkspace ==
  \A s \in Subscribers : \A j \in 1..Len(subs[s].frames) :
    subs[s].frames[j].workspace_id = SubWorkspace[s]

\* C11 witness: both connections were sent an event of their own workspace
\* and each passed over one of the other's.
C11_Witness ==
  \A s \in Subscribers :
    /\ subs[s].frames # <<>>
    /\ subs[s].seen > Len(subs[s].frames)

\* C12: the pairs passed to send are the popped metrics in pop order, and a
\* connection whose send_task is running and has never been told Lagged has
\* been sent exactly the events of its workspace among those its cursor has
\* passed since it subscribed, in publication order.
C12_PublicationOrder ==
  /\ Len(published) <= Len(popLog["broadcast"])
  /\ \A j \in 1..Len(published) :
       published[j] = <<popLog["broadcast"][j].workspace_id, popLog["broadcast"][j]>>
  /\ \A s \in Subscribers :
       (subs[s].send_task = "recv" /\ subs[s].lagged = 0)
         => subs[s].frames =
              OfWorkspace(published, subs[s].fromPub + 1,
                          subs[s].fromPub + (subs[s].next - subs[s].from),
                          SubWorkspace[s])

\* C12 witness: a connection that subscribed after the first publication and
\* never lagged has been sent two events, with one of the other workspace
\* published in between.
C12_Witness ==
  \E s \in Subscribers :
    /\ subs[s].send_task = "recv" /\ subs[s].lagged = 0
    /\ subs[s].fromPub > 0
    /\ Len(subs[s].frames) = 2
    /\ subs[s].seen = 3

\* send_task of connection s handles a Lagged error in this step.
LaggedStep(s) == subs[s].send_task = "recv" /\ subs'[s].lagged > subs[s].lagged

\* C13: a connection that has fallen behind is told Lagged by its next recv;
\* the step that handles it leaves send_task in its loop and the handler and
\* recv_task as they were, and moves the cursor to the oldest value still
\* held, so that the recv after it returns an event.
C13_LagKeepsRunning ==
  [][\A s \in Subscribers :
       /\ (SendTaskRecv(s) /\ subs[s].next < oldest(chan)) => LaggedStep(s)
       /\ LaggedStep(s) =>
            /\ subs'[s].send_task = "recv"
            /\ subs'[s].handler = subs[s].handler
            /\ subs'[s].recv_task = subs[s].recv_task
            /\ subs'[s].frames = subs[s].frames
            /\ recv(chan', subs'[s].next, senders' = {}).kind = "ok"]_vars

\* C13 witness: a connection that was told Lagged is still running and its
\* last frame is an event published after the ones it missed.
C13_Witness ==
  \E s \in Subscribers :
    /\ subs[s].lagged > 0
    /\ subs[s].send_task = "recv"
    /\ subs[s].handler = "select"
    /\ subs[s].frames # <<>>
    /\ \E j \in (subs[s].fromPub + subs[s].lagged + 1)..Len(published) :
         published[j][2] = subs[s].frames[Len(subs[s].frames)]

\* The connection's send_task is in its loop.
Receiving(s) == subs[s].send_task = "recv"
\* The values the channel holds that connection s has not received yet.
Held(s) ==
  chan.pos - (IF subs[s].next < oldest(chan) THEN oldest(chan) ELSE subs[s].next)

\* C14 (as claimed): the channel never holds more than broadcast_capacity
\* values that a subscriber has not received yet.
C14_HeldWithinCapacity ==
  \A s \in Subscribers : Receiving(s) => Held(s) <= BroadcastCapacity

\* C14 (amended): the channel never holds more than broadcast_capacity
\* rounded up to the next power of two values that a subscriber has not
\* received yet, and they are the most recently published ones (the oldest
\* give way); send never waits; and the counts of the Lagged errors of a
\* connection add up to the values its cursor passed without recv returning
\* them.
C14_HeldWithinSlots ==
  /\ Len(chan.ring) <= next_power_of_two(BroadcastCapacity)
  /\ worker["broadcast"].pc = "send" => ENABLED BroadcastSend
  /\ \A s \in Subscribers :
       /\ subs[s].lagged = (subs[s].next - subs[s].from) - subs[s].seen
       /\ Receiving(s) =>
            /\ Held(s) <= next_power_of_two(BroadcastCapacity)
            /\ SubSeq(chan.ring, Len(chan.ring) - Held(s) + 1, Len(chan.ring))
                 = SubSeq(published, Len(published) - Held(s) + 1, Len(published))

\* C14 witness: a connection has been told Lagged, and the channel holds for
\* it as many values as it has slots.
C14_Witness ==
  \E s \in Subscribers :
    /\ Receiving(s)
    /\ subs[s].lagged > 0
    /\ Held(s) = chan.slots

\* C15: handle_socket returns only after one of its two tasks has returned,
\* and can return as soon as one has; recv_task returns only on a close
\* frame or a transport error, send_task only on a failed frame send or on
\* the channel being closed.
C15_HandlerEndsWithEitherTask ==
  \A s \in Subscribers :
    /\ subs[s].handler \in {"none", "select", "returned"}
    /\ subs[s].recv_task \in {"none", "next", "close", "error"}
    /\ subs[s].send_task \in {"none", "recv", "send_failed", "closed"}
    /\ subs[s].handler = "returned"
         => (finished(subs[s].send_task) \/ finished(subs[s].recv_task))
    /\ (subs[s].handler = "select"
          /\ (finished(subs[s].send_task) \/ finished(subs[s].recv_task)))
         => ENABLED HandlerReturn(s)

\* C15 witness: one handler has returned after a close frame while its
\* send_task is still in its loop, the other after a failed frame send while
\* its recv_task is still reading.
C15_Witness ==
  /\ subs["s1"].handler = "returned"
  /\ subs["s1"].recv_task = "close" /\ subs["s1"].send_task = "recv"
  /\ subs["s2"].handler = "returned"
  /\ subs["s2"].send_task = "send_failed" /\ subs["s2"].recv_task = "next"

\* ==================================================================== shutdown
\* C16 (as claimed): once the router's AppState, the broadcast worker and the
\* anomaly detector have released their senders the channel is closed, so
\* that the recv of every connection returns Closed.
C16_ClosedOnRelease ==
  (senders \cap ProcessHolders = {}) => senders = {}

\* A step in which worker w takes a metric out of the buffer.
Pops(w) == popLog'[w] # popLog[w]

C18_FlushInsertsAll ==
  (Quiescent /\ dbFaults = 0 /\ Cardinality(accepted) <= FlushBatchMax)
    => stored = accepted

\* C19 (as claimed): the counts insert_metrics_batch returned add up to the
\* rows that are durable, whichever rows failed.
C19_SuccessfulRowsDurable == reported = Cardinality(stored)

\* The flush worker's insert returns Err in this step.
InsertErr == lost' # lost

\* C20: the metrics of a batch whose insert returned Err are not stored, not
\* in the buffer and in no worker's hands, then or later; the step that
\* returns Err changes neither storage nor buffer and takes the flush
\* worker back to its ticker with nothing in hand.
C20_FailedBatchLost ==
  /\ [](/\ lost \cap stored = {}
        /\ lost \cap Range(queue) = {}
        /\ \A w \in Workers : lost \cap Range(worker[w].batch) = {})
  /\ [][InsertErr =>
          /\ lost' = lost \cup Range(worker["flush"].batch)
          /\ stored' = stored
          /\ queue' = queue
          /\ worker'["flush"] = [pc |-> "tick", batch |-> <<>>]]_vars

\* C20 witness: a batch was lost and the flush worker has since popped and
\* stored a later metric.
C20_Witness ==
  /\ lost # {}
  /\ \E i, j \in 1..Len(popLog["flush"]) :
       /\ i < j
       /\ popLog["flush"][i] \in lost
       /\ popLog["flush"][j] \in stored

\* An iteration of the flush worker is in progress: it is in its pop_batch
\* or awaiting its insert.
FlushIterating == worker["flush"].pc \in {"pop", "insert"}

\* C21: the flush worker holds a batch only while an iteration is in
\* progress; a pop_batch starts only from the ticker, with nothing in hand;
\* and while the insert of an iteration is awaited the worker pops nothing
\* and its batch stays as it is until that insert has returned.
C21_SingleFlushIteration ==
  /\ []((worker["flush"].batch # <<>>) => FlushIterating)
  /\ [][/\ (Pops("flush") /\ worker["flush"].pc # "pop")
            => (worker["flush"].pc = "tick" /\ worker["flush"].batch = <<>>)
        /\ worker["flush"].pc = "insert"
            => /\ ~Pops("flush")
               /\ \/ worker'["flush"] = worker["flush"]
                  \/ worker'["flush"].batch = <<>>]_vars

\* C21 witness: the insert of an iteration is awaited while the buffer holds
\* metrics that the next tick would pop.
C21_Witness ==
  /\ worker["flush"].pc = "insert"
  /\ queue # <<>>
  /\ stored # {}


\* ===================================================== anomaly_detection_task
\* The sample size below which detect_anomalies_for_workspace returns early.
MinSamples == 100
\* The look-back of get_recent_metrics_for_anomaly, in seconds.
LookbackSecs == 60
\* Ticks of the detector's interval that are followed.
MaxDetTicks == 2
\* Storage calls of the detector that may fail.
MaxDetFaults == 1

\* stats.mean and stats.stddev are f64; they are kept as a number of halves.
StatsDen == 2

\* What get_metrics_stats may answer: COUNT, AVG and STDDEV of the newest
\* rows of the workspace (AVG and STDDEV are 0.0 when SQL returns NULL).
StatsAnswers ==
  { [count |-> MinSamples - 1, mean |-> 100 * StatsDen, stddev |-> 10 * StatsDen],
    [count |-> MinSamples, mean |-> 100 * StatsDen, stddev |-> 0],
    [count |-> MinSamples, mean |-> 100 * StatsDen, stddev |-> 10 * StatsDen],
    [count |-> MinSamples, mean |-> 100 * StatsDen + 1, stddev |-> 10 * StatsDen] }

\* Rows of query_metrics the detector reads: id, workspace_id, duration_ms and
\* created_at in seconds (the detector's first tick is at second 0).
DetEvents ==
  { [id |-> "a", workspace_id |-> "W1", duration_ms |-> 500, created_at |-> -10],
    [id |-> "b", workspace_id |-> "W1", duration_ms |-> 131, created_at |-> -59],
    [id |-> "c", workspace_id |-> "W1", duration_ms |-> 130, created_at |-> -10],
    [id |-> "d", workspace_id |-> "W1", duration_ms |-> 500, created_at |-> -60],
    [id |-> "e", workspace_id |-> "W2", duration_ms |-> 500, created_at |-> -10] }

\* Seconds between one tick and the next: the interval's period, or next to
\* nothing when the interval catches up on a tick it missed.
DetElapsed == {1, LookbackSecs}

\* get_all_workspace_ids: SELECT id FROM workspaces, in either order.
WorkspaceIdLists == {<<"W1", "W2">>, <<"W2", "W1">>}

threshold_ms_ceil(stats) == (stats.mean + 3 * stats.stddev + StatsDen - 1) \div StatsDen
\* (stats.mean + 3.0 * stats.stddev) as i64: the cast drops the fraction.
threshold_ms(stats) == (stats.mean + 3 * stats.stddev) \div StatsDen

\* The WHERE clause of get_recent_metrics_for_anomaly.
is_recent_slow(m, workspace_id, now, threshold) ==
  /\ m.workspace_id = workspace_id
  /\ m.created_at > now - LookbackSecs
  /\ m.duration_ms > threshold

\* ORDER BY duration_ms DESC.
RECURSIVE by_duration_desc(_)
by_duration_desc(ms) ==
  IF ms = {} THEN <<>>
  ELSE LET top == CHOOSE m \in ms : \A o \in ms : o.duration_ms <= m.duration_ms
       IN  <<top>> \o by_duration_desc(ms \ {top})

get_recent_metrics_for_anomaly(workspace_id, now, threshold) ==
  by_duration_desc({m \in DetEvents : is_recent_slow(m, workspace_id, now, threshold)})

\* (metric.duration_ms as f64 - stats.mean) / stats.stddev, as a fraction.
z_score(metric, stats) ==
  [num |-> metric.duration_ms * StatsDen - stats.mean, den |-> stats.stddev]

\* The QueryAnomaly built for one slow metric; run is history, the index of
\* the detect_anomalies_for_workspace call that built it.
QueryAnomaly(metric, stats, run) ==
  [workspace_id |-> metric.workspace_id,
   metric_id |-> metric.id,
   duration_ms |-> metric.duration_ms,
   mean_duration_ms |-> stats.mean \div StatsDen,
   stddev_duration_ms |-> stats.stddev \div StatsDen,
   z_score |-> z_score(metric, stats),
   run |-> run]

skips_never(stats) == FALSE
\* The two early returns of detect_anomalies_for_workspace.
skips(stats) == stats.count < MinSamples \/ stats.stddev <= 0

aborts_workspace(failed) == failed
\* if let Err(e) = db.insert_anomaly(..) { warn!(..) }: the for loop goes on.
aborts_on_insert_error(failed) == FALSE

\* if let Err(e) = detect_anomalies_for_workspace(..) { error!(..) }: the
\* loop over the workspaces goes on.
aborts_on_workspace_error(failed) == FALSE

\* No call of detect_anomalies_for_workspace has been made yet.
NoRun ==
  [workspace_id |-> NoWorkspace, now |-> 0, stats_ok |-> FALSE,
   stats |-> [count |-> 0, mean |-> 0, stddev |-> 0],
   skipped |-> FALSE, fetched |-> FALSE, failed |-> {}, returned |-> "none"]

\* The detector before its first tick.  anomalies is the table
\* query_anomalies.  History: runs counts the calls of
\* detect_anomalies_for_workspace and run describes the latest of them.
DetectorInit ==
  [pc |-> "tick", ticks |-> 0, now |-> 0, todo |-> <<>>, slow |-> <<>>,
   anomalies |-> <<>>, runs |-> 0, run |-> NoRun, faults |-> 0]

DetFaultChoices == IF det.faults < MaxDetFaults THEN {FALSE, TRUE} ELSE {FALSE}

\* Where the task goes when a workspace is finished with todo left over.
after_workspace(todo) == IF todo = <<>> THEN "tick" ELSE "workspace"

\* Mutant: the detector sends the slow metric to the WebSocket clients.
announce_send(ch, rx, metric) == send(ch, rx, <<metric.workspace_id, metric>>)

\* What the for loop does with _broadcast_tx after the insert: the debug!
\* line only; the sender is never used.
announce(ch, rx, metric) == ch

\* interval.tick().await, then get_all_workspace_ids: Err is logged and the
\* loop continues with the next tick.
DetTick ==
  /\ det.pc = "tick"
  /\ det.ticks < MaxDetTicks
  /\ \E elapsed \in DetElapsed, failed \in DetFaultChoices, ids \in WorkspaceIdLists :
       det' = [det EXCEPT
                 !.ticks = @ + 1,
                 !.now = IF det.ticks = 0 THEN 0 ELSE @ + elapsed,
                 !.faults = IF failed THEN @ + 1 ELSE @,
                 !.todo = IF failed THEN <<>> ELSE ids,
                 !.pc = IF failed THEN "tick" ELSE "workspace"]
  /\ UNCHANGED <<pipeVars, emb, hsh, ret, agg>>

\* detect_anomalies_for_workspace up to its for loop: the statistics, the two
\* early returns, the threshold and the slow metrics.
DetWorkspace ==
  /\ det.pc = "workspace"
  /\ det.todo # <<>>
  /\ \E stats \in StatsAnswers, stats_failed \in DetFaultChoices :
     \E slow_failed \in (IF stats_failed THEN {FALSE} ELSE DetFaultChoices) :
       LET workspace_id == Head(det.todo)
           skipped == ~stats_failed /\ skips(stats)
           fetched == ~stats_failed /\ ~skipped /\ ~slow_failed
           slow == IF fetched
                   THEN get_recent_metrics_for_anomaly(workspace_id, det.now,
                                                       threshold_ms(stats))
                   ELSE <<>>
           failed == stats_failed \/ (~skipped /\ slow_failed)
           todo == IF aborts_on_workspace_error(failed) THEN <<>> ELSE Tail(det.todo)
           run == [workspace_id |-> workspace_id, now |-> det.now,
                   stats_ok |-> ~stats_failed,
                   stats |-> IF stats_failed THEN NoRun.stats ELSE stats,
                   skipped |-> skipped, fetched |-> fetched, failed |-> {},
                   returned |-> IF failed THEN "Err"
                                ELSE IF slow = <<>> THEN "Ok" ELSE "none"]
       IN  det' = [det EXCEPT
                     !.faults = IF failed THEN @ + 1 ELSE @,
                     !.slow = slow,
                     !.todo = todo,
                     !.runs = @ + 1,
                     !.run = run,
                     !.pc = IF slow # <<>> THEN "insert" ELSE after_workspace(todo)]
  /\ UNCHANGED <<pipeVars, emb, hsh, ret, agg>>

\* One turn of the for loop: build the QueryAnomaly and insert it.
DetInsert ==
  /\ det.pc = "insert"
  /\ \E failed \in DetFaultChoices :
       LET metric == Head(det.slow)
           slow == IF aborts_on_insert_error(failed) THEN <<>> ELSE Tail(det.slow)
       IN  /\ det' = [det EXCEPT
                     !.faults = IF failed THEN @ + 1 ELSE @,
                     !.anomalies =
                        IF failed THEN @
                        ELSE Append(@, QueryAnomaly(metric, det.run.stats, det.runs)),
                     !.run.failed = IF failed THEN @ \cup {metric.id} ELSE @,
                     !.run.returned = IF slow = <<>> THEN "Ok" ELSE @,
                     !.slow = slow,
                     !.pc = IF slow # <<>> THEN "insert" ELSE after_workspace(det.todo)]
          /\ chan' = announce(chan, rx_cnt(subs), metric)
  /\ UNCHANGED <<queue, req, worker, published, stored, dbFaults, accepted, rejected,
                 popLog, popObs, senders, subs, shutdown, lost, reported>>
  /\ UNCHANGED <<emb, hsh, ret, agg>>

AnomalyInit ==
  /\ PipelineInit
  /\ det = DetectorInit
  /\ emb = Unused /\ hsh = Unused /\ ret = Unused /\ agg = Unused

AnomalyNext ==
  \/ DetTick
  \/ DetWorkspace
  \/ DetInsert

SpecAnomaly == AnomalyInit /\ [][AnomalyNext]_vars


\* ------------------------------------------------- claims on the detector
\* The rows query_anomalies got from the latest detect_anomalies_for_workspace.
RunRows == SelectSeq(det.anomalies, LAMBDA row : row.run = det.runs)

\* The latest detect_anomalies_for_workspace got past its two early returns.
RunPassedChecks == det.runs > 0 /\ det.run.stats_ok /\ ~det.run.skipped

\* The latest detect_anomalies_for_workspace has returned.
RunReturned == det.runs > 0 /\ det.run.returned # "none"

\* C22: every stored anomaly has a z-score above 3 over a positive sigma; the
\* rows of the latest run were stored with a sample count of at least 100 and
\* a sigma above 0, and their z-score is (duration - mu) / sigma for the
\* statistics of that run; a run with fewer than 100 samples or with sigma at
\* most 0 stores no row.
C22_AnomalyPredicate ==
  /\ \A j \in 1..Len(det.anomalies) :
       LET z == det.anomalies[j].z_score
       IN  z.den > 0 /\ z.num > 3 * z.den
  /\ \A j \in 1..Len(RunRows) :
       LET row == RunRows[j]
           stats == det.run.stats
       IN  /\ det.run.stats_ok
           /\ stats.count >= 100
           /\ stats.stddev > 0
           /\ row.workspace_id = det.run.workspace_id
           /\ row.z_score.num * stats.stddev
                = (row.duration_ms * StatsDen - stats.mean) * row.z_score.den
  /\ (det.runs > 0 /\ (det.run.stats.count < 100 \/ det.run.stats.stddev <= 0))
       => RunRows = <<>>

\* Rows were stored by an earlier run, and the latest run met statistics
\* with a sigma of 0 after storing nothing.
C22_Witness ==
  /\ \E j \in 1..Len(det.anomalies) :
       det.anomalies[j].metric_id = "b" /\ det.anomalies[j].run = 1
  /\ det.runs = 2
  /\ det.run.stats_ok
  /\ det.run.stats.count >= 100
  /\ det.run.stats.stddev = 0

\* Rows of the latest run that are about the stored event m.
RowsAbout(m) == Len(SelectSeq(RunRows, LAMBDA row : row.metric_id = m.id))

\* The stored event m is one the latest run has to report: of its workspace,
\* created in the last 60 seconds, and slower than mu + 3 sigma cut to an
\* integer.
Reportable(m) ==
  /\ m.workspace_id = det.run.workspace_id
  /\ m.created_at > det.run.now - 60
  /\ m.duration_ms > (det.run.stats.mean + 3 * det.run.stats.stddev) \div StatsDen

\* C23 as stated: a run that passed the checks has stored exactly one row
\* for each reportable event and none for any other.
C23_OneRowPerSlowEvent ==
  (RunPassedChecks /\ RunReturned)
    => \A m \in DetEvents : RowsAbout(m) = IF Reportable(m) THEN 1 ELSE 0

\* C23: a run that passed the checks and whose query for the slow events
\* succeeded has stored exactly one row for each reportable event whose
\* insert succeeded, and none for any other; a run whose query for the slow
\* events failed has stored none.
C23_OneRowPerInsertedSlowEvent ==
  (RunPassedChecks /\ RunReturned)
    => \A m \in DetEvents :
         RowsAbout(m) = IF det.run.fetched /\ Reportable(m) /\ m.id \notin det.run.failed
                        THEN 1 ELSE 0

\* mu = 100, sigma = 10: the 500 ms event of the last minute got its one row
\* with z = 40, the 131 ms one lost its row to a failed insert.
C23_Witness ==
  /\ RunPassedChecks /\ RunReturned
  /\ det.run.stats.mean = 100 * StatsDen
  /\ det.run.stats.stddev = 10 * StatsDen
  /\ det.run.failed = {"b"}
  /\ \E j \in 1..Len(RunRows) :
       /\ RunRows[j].metric_id = "a"
       /\ RunRows[j].z_score.num = 40 * RunRows[j].z_score.den

\* This step is an insert_anomaly that failed.
InsertAnomalyFails == det.pc = "insert" /\ det'.run.failed # det.run.failed

\* This step is a detect_anomalies_for_workspace that returned Err.
WorkspaceFails == det.pc = "workspace" /\ det'.run.returned = "Err"

\* C24: after a failed insert the anomalies that remain for the workspace
\* are still to be inserted, after a failed workspace the workspaces that
\* remain for the tick are still to be processed, and whatever is still to
\* be done can be done.
C24_FailuresIsolated ==
  /\ [](/\ det.pc = "insert" => (det.slow # <<>> /\ ENABLED DetInsert)
        /\ det.pc = "workspace" => (det.todo # <<>> /\ ENABLED DetWorkspace))
  /\ [][/\ InsertAnomalyFails
             => /\ det'.slow = Tail(det.slow)
                /\ det'.todo = det.todo
                /\ det'.slow # <<>> => det'.pc = "insert"
                /\ (det'.slow = <<>> /\ det.todo # <<>>) => det'.pc = "workspace"
        /\ WorkspaceFails
             => /\ det'.todo = Tail(det.todo)
                /\ det'.todo # <<>> => det'.pc = "workspace"]_vars

\* The insert for the 500 ms event failed, and the row for the 131 ms event
\* of the same run was stored after it.
C24_Witness ==
  /\ det.run.failed = {"a"}
  /\ \E j \in 1..Len(RunRows) : RunRows[j].metric_id = "b"


\* ================================================================ query texts
\* A query text is a sequence of characters; these are the characters used.
Chars == {"a", "A", " ", "\t"}
\* char::is_whitespace / the class \s.
is_whitespace(c) == c \in {" ", "\t"}
\* Longest query text that is followed.
MaxTextLen == 3

RECURSIVE TextsUpTo(_)
TextsUpTo(n) ==
  IF n = 0 THEN {<<>>}
  ELSE LET shorter == TextsUpTo(n - 1)
       IN  shorter \cup {Append(t, c) : t \in {x \in shorter : Len(x) = n - 1}, c \in Chars}

Texts == TextsUpTo(MaxTextLen)

\* char::to_lowercase / lower().
lower(c) == IF c = "A" THEN "a" ELSE c

to_lowercase(text) == [j \in 1..Len(text) |-> lower(text[j])]

\* The text without the characters of strip at its two ends.
RECURSIVE strip_start(_, _)
strip_start(text, strip) ==
  IF text # <<>> /\ Head(text) \in strip THEN strip_start(Tail(text), strip) ELSE text

RECURSIVE strip_end(_, _)
strip_end(text, strip) ==
  IF text # <<>> /\ text[Len(text)] \in strip
  THEN strip_end(SubSeq(text, 1, Len(text) - 1), strip)
  ELSE text

\* str::trim: whitespace off both ends.
trim(text) == strip_end(strip_start(text, {c \in Chars : is_whitespace(c)}), {c \in Chars : is_whitespace(c)})

\* str::split_whitespace: the maximal runs of characters that are not
\* whitespace, in order; word is the run being read.
RECURSIVE split_whitespace_from(_, _)
split_whitespace_from(text, word) ==
  IF text = <<>> THEN (IF word = <<>> THEN <<>> ELSE <<word>>)
  ELSE IF is_whitespace(Head(text))
       THEN (IF word = <<>> THEN <<>> ELSE <<word>>) \o split_whitespace_from(Tail(text), <<>>)
       ELSE split_whitespace_from(Tail(text), Append(word, Head(text)))

split_whitespace(text) == split_whitespace_from(text, <<>>)

\* [&str]::join(sep).
RECURSIVE join(_, _)
join(words, sep) ==
  IF words = <<>> THEN <<>>
  ELSE IF Len(words) = 1 THEN words[1]
  ELSE words[1] \o sep \o join(Tail(words), sep)

normalize_query_no_collapse(query) == to_lowercase(trim(query))
\* normalize_query.
normalize_query(query) == join(split_whitespace(to_lowercase(trim(query))), <<" ">>)

\* The byte of a character.
byte(c) == CASE c = "a" -> 97 [] c = "A" -> 65 [] c = " " -> 32 [] c = "\t" -> 9

\* DefaultHasher's digest of a string has 64 bits; the digest kept here has 16.
HashModulus == 65536

\* Hasher::finish after str::hash: a digest of the bytes, in order.
RECURSIVE finish(_, _)
finish(text, h) ==
  IF text = <<>> THEN h
  ELSE finish(Tail(text), (h * 31 + byte(Head(text)) + 1) % HashModulus)

HexDigits == <<"0", "1", "2", "3", "4", "5", "6", "7", "8", "9", "a", "b", "c", "d", "e", "f">>

\* format!("{:016x}", n): sixteen hexadecimal digits, zero padded.
RECURSIVE hex(_, _)
hex(n, width) ==
  IF width = 0 THEN <<>>
  ELSE Append(hex(n \div 16, width - 1), HexDigits[(n % 16) + 1])

query_hash_raw(query) == hex(finish(query, 0), 16)
\* query_hash.
query_hash(query) == hex(finish(normalize_query(query), 0), 16)

NoText == <<"-">>

\* Two query texts are taken, then normalized, normalized again and hashed.
HashInit ==
  /\ PipelineInit
  /\ \E q1 \in Texts, q2 \in Texts :
       hsh = [pc |-> "given", q |-> <<q1, q2>>,
              normalized |-> <<NoText, NoText>>,
              again |-> <<NoText, NoText>>,
              hash |-> <<NoText, NoText>>]
  /\ det = Unused /\ emb = Unused /\ ret = Unused /\ agg = Unused

HashNormalize ==
  /\ hsh.pc = "given"
  /\ hsh' = [hsh EXCEPT !.pc = "normalized",
                        !.normalized = [j \in 1..2 |-> normalize_query(hsh.q[j])]]
  /\ UNCHANGED <<pipeVars, det, emb, ret, agg>>

HashNormalizeAgain ==
  /\ hsh.pc = "normalized"
  /\ hsh' = [hsh EXCEPT !.pc = "again",
                        !.again = [j \in 1..2 |-> normalize_query(hsh.normalized[j])]]
  /\ UNCHANGED <<pipeVars, det, emb, ret, agg>>

HashQueries ==
  /\ hsh.pc = "again"
  /\ hsh' = [hsh EXCEPT !.pc = "hashed",
                        !.hash = [j \in 1..2 |-> query_hash(hsh.q[j])]]
  /\ UNCHANGED <<pipeVars, det, emb, ret, agg>>

HashNext ==
  \/ HashNormalize
  \/ HashNormalizeAgain
  \/ HashQueries

SpecHash == HashInit /\ [][HashNext]_vars

\* What the documentation of normalize_query asks of its result: lower case,
\* no whitespace at either end, words parted by one space each.
IsNormalized(text) ==
  /\ \A j \in 1..Len(text) : text[j] = lower(text[j]) /\ text[j] # "\t"
  /\ text # <<>> => (text[1] # " " /\ text[Len(text)] # " ")
  /\ \A j \in 1..Len(text) - 1 : ~(text[j] = " " /\ text[j + 1] = " ")

EmbedBatchMax == 2
\* Calls of the worker (storage or embedder) that may fail.
MaxEmbFaults == 1

\* trim(query_text) in SQL takes spaces, and only spaces, off both ends.
sql_trim(text) == strip_end(strip_start(text, {" "}), {" "})

\* regexp_replace(text, '\s+', ' ', 'g'): each run of whitespace becomes one
\* space; in_run says that the character before was whitespace.
RECURSIVE regexp_replace_from(_, _)
regexp_replace_from(text, in_run) ==
  IF text = <<>> THEN <<>>
  ELSE IF is_whitespace(Head(text))
       THEN (IF in_run THEN <<>> ELSE <<" ">>) \o regexp_replace_from(Tail(text), TRUE)
       ELSE <<Head(text)>> \o regexp_replace_from(Tail(text), FALSE)

regexp_replace(text) == regexp_replace_from(text, FALSE)

\* md5(..): a digest that tells apart all the texts that are followed.
md5(text) == <<"md5", text>>

\* The query_hash column get_unembedded_queries computes.
sql_query_hash(query_text) == md5(to_lowercase(regexp_replace(sql_trim(query_text))))

\* query_text of the rows of query_metrics, per workspace.
EmbTexts(workspace_id) ==
  IF workspace_id = "W1"
  THEN {<<"a">>, <<"A">>, <<"a", " ", "a">>, <<"\t", "a">>}
  ELSE {<<"a">>}

\* EmbeddingService::embed_query: the vector the model gives the text.
embed_query(query_text) == <<"vector", query_text>>

\* Is there a row of query_embeddings with this key?
has_row(store, workspace_id, hash) ==
  \E j \in 1..Len(store) : store[j].workspace_id = workspace_id /\ store[j].query_hash = hash

insert_query_embedding_append(store, workspace_id, hash, sql_query, embedding) ==
  Append(store, [workspace_id |-> workspace_id, query_hash |-> hash,
                 sql_query |-> sql_query, embedding |-> embedding])
\* insert_query_embedding: INSERT .. ON CONFLICT (workspace_id, query_hash)
\* DO UPDATE SET embedding.
insert_query_embedding(store, workspace_id, hash, sql_query, embedding) ==
  IF has_row(store, workspace_id, hash)
  THEN [j \in 1..Len(store) |->
          IF store[j].workspace_id = workspace_id /\ store[j].query_hash = hash
          THEN [store[j] EXCEPT !.embedding = embedding]
          ELSE store[j]]
  ELSE Append(store, [workspace_id |-> workspace_id, query_hash |-> hash,
                      sql_query |-> sql_query, embedding |-> embedding])

\* The (query_text, query_hash) pairs of a workspace, and those of them whose
\* hash has no row in query_embeddings.
QueryPairs(workspace_id) ==
  {[query_text |-> t, query_hash |-> sql_query_hash(t)] : t \in EmbTexts(workspace_id)}

Unembedded(store, workspace_id) ==
  {p \in QueryPairs(workspace_id) : ~has_row(store, workspace_id, p.query_hash)}

\* The answers SELECT DISTINCT .. LIMIT may give out of the pairs: limit of
\* them, or all if there are fewer, in any order.
LimitOf(pairs, limit) ==
  LET k == Min(limit, Cardinality(pairs))
  IN  {sq \in [1..k -> pairs] : \A a, b \in 1..k : a # b => sq[a] # sq[b]}

get_unembedded_queries_any(store, workspace_id, limit) ==
  LimitOf(QueryPairs(workspace_id), limit)
\* get_unembedded_queries.
get_unembedded_queries(store, workspace_id, limit) ==
  LimitOf(Unembedded(store, workspace_id), limit)

\* The worker before its first tick, with an embedding service configured.
\* store is the table query_embeddings.
EmbedderInit ==
  [pc |-> "tick", todo |-> <<>>, workspace_id |-> NoWorkspace, batch |-> <<>>,
   store |-> <<>>, faults |-> 0]

EmbFaultChoices == IF emb.faults < MaxEmbFaults THEN {FALSE, TRUE} ELSE {FALSE}

\* interval.tick().await, then get_all_workspace_ids: Err is logged and the
\* loop continues with the next tick.
EmbTick ==
  /\ emb.pc = "tick"
  /\ \E failed \in EmbFaultChoices, ids \in WorkspaceIdLists :
       emb' = [emb EXCEPT
                 !.faults = IF failed THEN @ + 1 ELSE @,
                 !.todo = IF failed THEN <<>> ELSE ids,
                 !.pc = IF failed THEN "tick" ELSE "workspace"]
  /\ UNCHANGED <<pipeVars, det, hsh, ret, agg>>

\* The head of the loop over the workspaces: get_unembedded_queries; Err, or
\* an empty answer, continues with the next workspace.
EmbWorkspace ==
  /\ emb.pc = "workspace"
  /\ emb.todo # <<>>
  /\ \E failed \in EmbFaultChoices :
     \E queries \in (IF failed THEN {<<>>}
                     ELSE get_unembedded_queries(emb.store, Head(emb.todo), EmbedBatchMax)) :
       emb' = [emb EXCEPT
                 !.faults = IF failed THEN @ + 1 ELSE @,
                 !.workspace_id = Head(emb.todo),
                 !.todo = Tail(@),
                 !.batch = queries,
                 !.pc = IF queries # <<>> THEN "item" ELSE after_workspace(Tail(emb.todo))]
  /\ UNCHANGED <<pipeVars, det, hsh, ret, agg>>

\* One turn of the loop over the queries: embed_query, then
\* insert_query_embedding; either Err is logged and the loop goes on.
EmbItem ==
  /\ emb.pc = "item"
  /\ \E embed_failed \in EmbFaultChoices :
     \E insert_failed \in (IF embed_failed THEN {FALSE} ELSE EmbFaultChoices) :
       LET query == Head(emb.batch)
           failed == embed_failed \/ insert_failed
       IN  emb' = [emb EXCEPT
                     !.faults = IF failed THEN @ + 1 ELSE @,
                     !.store = IF failed THEN @
                               ELSE insert_query_embedding(@, emb.workspace_id,
                                      query.query_hash, query.query_text,
                                      embed_query(query.query_text)),
                     !.batch = Tail(@),
                     !.pc = IF Tail(emb.batch) # <<>> THEN "item"
                            ELSE after_workspace(emb.todo)]
  /\ UNCHANGED <<pipeVars, det, hsh, ret, agg>>

EmbedInit ==
  /\ PipelineInit
  /\ emb = EmbedderInit
  /\ det = Unused /\ hsh = Unused /\ ret = Unused /\ agg = Unused

EmbedNext ==
  \/ EmbTick
  \/ EmbWorkspace
  \/ EmbItem

SpecEmbed == EmbedInit /\ [][EmbedNext]_vars

\* The interval fires every 30 seconds for as long as the process runs, and
\* every call the worker awaits returns: the worker always takes its next step.
SpecEmbedFair == SpecEmbed /\ WF_vars(EmbedNext)

\* ------------------------------------------- claims on the embedding store
\* This step is an insert_query_embedding that returned Ok.
Upserts == emb.pc = "item" /\ emb'.faults = emb.faults

\* Rows of the store other than the one with this key.
OtherRows(store, workspace_id, hash) ==
  SelectSeq(store, LAMBDA row : ~(row.workspace_id = workspace_id /\ row.query_hash = hash))

\* C25: query_embeddings never has two rows with the same (workspace_id,
\* query_hash); an upsert for a key that has a row puts the new vector into
\* that row and adds no row, an upsert for a key that has none adds one row
\* with that key, and the rows of all other keys stay as they were.
C25_OneRowPerKey ==
  /\ [](\A a, b \in 1..Len(emb.store) :
          (/\ emb.store[a].workspace_id = emb.store[b].workspace_id
           /\ emb.store[a].query_hash = emb.store[b].query_hash) => a = b)
  /\ [][Upserts =>
          LET key == Head(emb.batch).query_hash
              ws == emb.workspace_id
              vec == embed_query(Head(emb.batch).query_text)
          IN  /\ OtherRows(emb'.store, ws, key) = OtherRows(emb.store, ws, key)
              /\ Len(emb'.store) = IF has_row(emb.store, ws, key)
                                   THEN Len(emb.store) ELSE Len(emb.store) + 1
              /\ \E j \in 1..Len(emb'.store) :
                   /\ emb'.store[j].workspace_id = ws
                   /\ emb'.store[j].query_hash = key
                   /\ emb'.store[j].embedding = vec]_vars

\* The row of "a" in workspace W1 was written for the text "a" and now
\* holds the vector of the text "A", next to rows of another key and of
\* another workspace.
C25_Witness ==
  /\ \E j \in 1..Len(emb.store) :
       /\ emb.store[j].workspace_id = "W1"
       /\ emb.store[j].sql_query = <<"a">>
       /\ emb.store[j].embedding = embed_query(<<"A">>)
  /\ has_row(emb.store, "W2", sql_query_hash(<<"a">>))
  /\ has_row(emb.store, "W1", sql_query_hash(<<"a", " ", "a">>))

\* Every stored query text has a row of query_embeddings for its hash.
AllEmbedded ==
  \A w \in Workspaces : \A p \in QueryPairs(w) : has_row(emb.store, w, p.query_hash)

\* C26: the worker never holds more texts of a workspace than the limit;
\* the texts it selects are stored texts of that workspace whose hash has no
\* row yet; a text that failed to be embedded or stored leaves the remaining
\* texts to be processed, and a workspace whose selection failed leaves the
\* remaining workspaces to be processed; and once the failures have ceased
\* every stored query text gets its row.
C26_EmbedsUnseenTexts ==
  /\ [](Len(emb.batch) <= EmbedBatchMax)
  /\ [][/\ emb.pc = "workspace"
             => /\ \A j \in 1..Len(emb'.batch) :
                     /\ emb'.batch[j] \in QueryPairs(emb'.workspace_id)
                     /\ ~has_row(emb.store, emb'.workspace_id, emb'.batch[j].query_hash)
                /\ emb'.todo = Tail(emb.todo)
                /\ emb'.pc \in {"item", "workspace", "tick"}
                /\ emb'.pc = "tick" => emb'.todo = <<>>
        /\ emb.pc = "item"
             => /\ emb'.batch = Tail(emb.batch)
                /\ emb'.todo = emb.todo
                /\ emb'.batch # <<>> => emb'.pc = "item"
                /\ emb'.faults = emb.faults
                     => has_row(emb'.store, emb.workspace_id, Head(emb.batch).query_hash)]_vars
  /\ <>[]AllEmbedded

\* A text failed on an earlier tick, the rest went on, and by now every
\* stored text of both workspaces has its row.
C26_Witness ==
  /\ emb.faults = MaxEmbFaults
  /\ AllEmbedded
  /\ emb.pc = "tick"


\* ============================================================= retention_task
\* Times are in seconds; the task is spawned at second 0.
StartupSleepSecs == 60
RetentionPeriodSecs == 6 * 60 * 60
RetentionDays == 30
\* Ticks of the pruner's interval that are followed.
MaxRetTicks == 3
\* Deletes that may fail.
MaxRetFaults == 1

\* make_interval(days => n), in seconds.
make_interval(days) == days * 24 * 60 * 60

Max(a, b) == IF a > b THEN a ELSE b

\* Rows of query_metrics, by the second they were created: one older than
\* the retention at the first tick, one exactly that old, one a second
\* younger, one that comes of age between the first tick and the second, and
\* a fresh one.
RetRows ==
  { [id |-> "old", created_at |-> StartupSleepSecs - make_interval(RetentionDays) - 1],
    [id |-> "edge", created_at |-> StartupSleepSecs - make_interval(RetentionDays)],
    [id |-> "near", created_at |-> StartupSleepSecs - make_interval(RetentionDays) + 1],
    [id |-> "later", created_at |-> StartupSleepSecs - make_interval(RetentionDays)
                                      + RetentionPeriodSecs - 1],
    [id |-> "fresh", created_at |-> -1] }

\* How late after its deadline a sleep or a tick may complete.
RetDelays == {0, 1}

wakes_at_once(start) == start
\* tokio::time::sleep(Duration::from_secs(60)).await.
wakes_at(start) == start + StartupSleepSecs

prune_old_metrics_inclusive(rows, now, older_than_days) ==
  {r \in rows : ~(r.created_at <= now - make_interval(older_than_days))}
\* prune_old_metrics: the rows that DELETE .. WHERE created_at < NOW() -
\* make_interval(days => $1) leaves.
prune_old_metrics(rows, now, older_than_days) ==
  {r \in rows : ~(r.created_at < now - make_interval(older_than_days))}

after_prune_propagates(failed) == IF failed THEN "exited" ELSE "tick"
\* The match on prune_old_metrics' result logs in both arms and falls through
\* to the end of the loop body.
after_prune(failed) == "tick"

\* The pruner when it is spawned.  rows is the table query_metrics.  History:
\* prunes counts the calls of prune_old_metrics, last says how the latest
\* ended.
PrunerInit(rows) ==
  [pc |-> "sleep", now |-> 0, next_tick |-> 0, ticks |-> 0, rows |-> rows,
   prunes |-> 0, last |-> "none", faults |-> 0]

RetFaultChoices == IF ret.faults < MaxRetFaults THEN {FALSE, TRUE} ELSE {FALSE}

\* The sleep ends and the interval is made: its first tick is due at once.
RetWake ==
  /\ ret.pc = "sleep"
  /\ \E late \in RetDelays :
       ret' = [ret EXCEPT !.pc = "tick",
                          !.now = wakes_at(ret.now) + late,
                          !.next_tick = wakes_at(ret.now) + late]
  /\ UNCHANGED <<pipeVars, det, emb, hsh, agg>>

\* One turn of the loop: the tick, due a period after the one before, and
\* prune_old_metrics(30); Ok and Err are both logged.
RetTick ==
  /\ ret.pc = "tick"
  /\ ret.ticks < MaxRetTicks
  /\ \E late \in RetDelays, failed \in RetFaultChoices :
       LET now == Max(ret.now, ret.next_tick) + late
       IN  ret' = [ret EXCEPT
                     !.now = now,
                     !.next_tick = @ + RetentionPeriodSecs,
                     !.pc = after_prune(failed),
                     !.ticks = @ + 1,
                     !.prunes = @ + 1,
                     !.faults = IF failed THEN @ + 1 ELSE @,
                     !.last = IF failed THEN "Err" ELSE "Ok",
                     !.rows = IF failed THEN @
                              ELSE prune_old_metrics(@, now, RetentionDays)]
  /\ UNCHANGED <<pipeVars, det, emb, hsh, agg>>

RetentionInit ==
  /\ PipelineInit
  /\ \E rows \in SUBSET RetRows : ret = PrunerInit(rows)
  /\ det = Unused /\ emb = Unused /\ hsh = Unused /\ agg = Unused

RetentionNext ==
  \/ RetWake
  \/ RetTick

SpecRetention == RetentionInit /\ [][RetentionNext]_vars

\* C28: nothing is deleted before second 60; every tick after that comes no
\* sooner than six hours after the one before was due and calls the delete
\* once; a delete that succeeds removes the rows older than 30 days at that
\* moment and no other row, a delete that fails removes nothing, and after
\* either the pruner waits for its next tick.
C28_RetentionSchedule ==
  /\ [](/\ ret.now < 60 => ret.prunes = 0
        /\ ret.pc = "sleep" => ret.prunes = 0
        /\ ret.prunes = ret.ticks
        /\ ret.prunes > 0 => (ret.pc = "tick" /\ ret.next_tick > ret.now))
  /\ [][/\ ret'.rows # ret.rows => ret'.now >= 60
        /\ ret'.prunes # ret.prunes =>
             /\ ret'.prunes = ret.prunes + 1
             /\ ret'.now >= ret.next_tick
             /\ ret'.next_tick = ret.next_tick + 6 * 3600
             /\ ret'.pc = "tick"
             /\ ret'.last = "Ok" =>
                  ret'.rows = {r \in ret.rows : r.created_at >= ret'.now - 30 * 86400}
             /\ ret'.last = "Err" => ret'.rows = ret.rows]_vars

\* The first delete failed; the second, six hours later, removed the four
\* rows that were older than 30 days by then and left the fresh one.
C28_Witness ==
  /\ ret.prunes = 2
  /\ ret.faults = 1
  /\ ret.last = "Ok"
  /\ ret.now >= 60 + 6 * 3600
  /\ {r.id : r \in ret.rows} = {"fresh"}


\* ========================================================== get_aggregations
\* Utc::now() when the request is handled, in seconds.
AggNow == 7200
\* Duration::hours(1), in seconds.
HourSecs == 60 * 60

\* An optional query parameter that is absent, Option<DateTime<Utc>> values.
None == "None"
NoTime == [some |-> FALSE, at |-> 0]
Some(at) == [some |-> TRUE, at |-> at]
unwrap_or(option, default) == IF option.some THEN option.at ELSE default

\* What the window parameter may carry.
WindowParams == {None, "5s", "1m", "5m", "1h", "5S", "metrics_5s"}
\* What the from and to parameters may carry.
TimeParams ==
  {NoTime, Some(AggNow - HourSecs), Some(AggNow - 1), Some(AggNow), Some(AggNow + 1)}

\* #[serde(default = "default_window")].
default_window == "1m"

valid_windows == {"5s", "1m", "5m"}

\* The view get_aggregations of the store selects from; the last arm of its
\* match returns Err(InvalidRequest).
view_name(window) ==
  CASE window = "5s" -> "metrics_5s"
    [] window = "1m" -> "metrics_1m"
    [] window = "5m" -> "metrics_5m"
    [] OTHER -> "Err"

is_bad_range_strict(from, to) == from > to
\* if from >= to { return Err(InvalidRequest) }.
is_bad_range(from, to) == from >= to

NoQuery == [view |-> "none", from |-> 0, to |-> 0]

\* A request with its query parameters as deserialized; status 0: no response
\* yet; error is the AppError the handler returned.  query is the SELECT
\* that was sent to the store.
AggRequest(window, from, to) ==
  [pc |-> "received", window |-> IF window = None THEN default_window ELSE window,
   from_param |-> from, to_param |-> to,
   from |-> 0, to |-> 0, status |-> 0, error |-> "none", query |-> NoQuery]

\* get_aggregations of the route up to the call of the store: the window
\* check, the defaults of the range and the range check.
AggValidate ==
  /\ agg.pc = "received"
  /\ LET from == unwrap_or(agg.from_param, AggNow - HourSecs)
         to == unwrap_or(agg.to_param, AggNow)
     IN  IF agg.window \notin valid_windows
         THEN agg' = [agg EXCEPT !.pc = "done", !.status = 400,
                                 !.error = "InvalidRequest"]
         ELSE IF is_bad_range(from, to)
         THEN agg' = [agg EXCEPT !.pc = "done", !.status = 400,
                                 !.error = "InvalidRequest",
                                 !.from = from, !.to = to]
         ELSE agg' = [agg EXCEPT !.pc = "query", !.from = from, !.to = to]
  /\ UNCHANGED <<pipeVars, det, emb, hsh, ret>>

\* get_aggregations of the store and the response: the view is chosen by the
\* window, the SELECT is sent, and its Err becomes a 500.
AggQuery ==
  /\ agg.pc = "query"
  /\ \E failed \in {FALSE, TRUE} :
       IF view_name(agg.window) = "Err"
       THEN agg' = [agg EXCEPT !.pc = "done", !.status = 400,
                               !.error = "InvalidRequest"]
       ELSE agg' = [agg EXCEPT
                      !.pc = "done",
                      !.query = [view |-> view_name(agg.window),
                                 from |-> agg.from, to |-> agg.to],
                      !.status = IF failed THEN 500 ELSE 200,
                      !.error = IF failed THEN "DatabaseError" ELSE "none"]
  /\ UNCHANGED <<pipeVars, det, emb, hsh, ret>>

AggregationsInit ==
  /\ PipelineInit
  /\ \E window \in WindowParams, from \in TimeParams, to \in TimeParams :
       agg = AggRequest(window, from, to)
  /\ det = Unused /\ emb = Unused /\ hsh = Unused /\ ret = Unused

AggregationsNext ==
  \/ AggValidate
  \/ AggQuery

SpecAggregations == AggregationsInit /\ [][AggregationsNext]_vars

\* The range the request asks for, with the defaults for what it leaves out.
AskedFrom == IF agg.from_param.some THEN agg.from_param.at ELSE AggNow - 3600
AskedTo == IF agg.to_param.some THEN agg.to_param.at ELSE AggNow

\* C29: a query is sent to the store only for a window of 5s, 1m or 5m and
\* a range with from before to, and it reads the view of that window over
\* that range; a request with any other window, or with from at or after
\* to, is answered with InvalidRequest, status 400, and sends no query.
C29_ValidatedBeforeQuery ==
  /\ agg.query # NoQuery
       => /\ agg.window \in {"5s", "1m", "5m"}
          /\ AskedFrom < AskedTo
          /\ agg.query.from = AskedFrom /\ agg.query.to = AskedTo
          /\ agg.window = "5s" => agg.query.view = "metrics_5s"
          /\ agg.window = "1m" => agg.query.view = "metrics_1m"
          /\ agg.window = "5m" => agg.query.view = "metrics_5m"
  /\ (agg.pc # "received" /\ (agg.window \notin {"5s", "1m", "5m"} \/ AskedFrom >= AskedTo))
       => /\ agg.pc = "done"
          /\ agg.status = 400
          /\ agg.error = "InvalidRequest"
          /\ agg.query = NoQuery
  /\ agg.pc = "done" => (agg.status \in {200, 500} <=> agg.query # NoQuery)

\* A request for the 5m window with from equal to to was answered 400
\* without a query.
C29_Witness ==
  /\ agg.pc = "done"
  /\ agg.window = "5m"
  /\ agg.from_param = Some(AggNow) /\ agg.to_param = NoTime
  /\ agg.status = 400
  /\ agg.query = NoQuery


\* ========================================================= the five workers
\* main spawns the broadcast, flush, retention, embedding and anomaly tasks.
\* The flush and broadcast workers share the buffer; the other three share
\* nothing that is followed here with them or with each other.  So one
\* behaviour follows either the buffer and its two workers or one of the
\* other three tasks, and a task that is not followed keeps the value Unused.
PipelineFollowed == det = Unused /\ emb = Unused /\ ret = Unused

WorkersInit ==
  /\ PipelineInit
  /\ hsh = Unused /\ agg = Unused
  /\ \/ det = Unused /\ emb = Unused /\ ret = Unused
     \/ det = DetectorInit /\ emb = Unused /\ ret = Unused
     \/ det = Unused /\ emb = EmbedderInit /\ ret = Unused
     \/ det = Unused /\ emb = Unused /\ \E rows \in SUBSET RetRows : ret = PrunerInit(rows)

WorkersNext ==
  \/ PipelineFollowed /\ LiveIngest
  \/ PipelineFollowed /\ FlushTick
  \/ PipelineFollowed /\ FlushPop
  \/ PipelineFollowed /\ FlushInsert
  \/ PipelineFollowed /\ BroadcastTick
  \/ PipelineFollowed /\ BroadcastPop
  \/ PipelineFollowed /\ BroadcastSend
  \/ DetTick
  \/ DetWorkspace
  \/ DetInsert
  \/ EmbTick
  \/ EmbWorkspace
  \/ EmbItem
  \/ RetWake
  \/ RetTick

SpecWorkers == WorkersInit /\ [][WorkersNext]_vars

\* This step is an insert_metrics_batch that met a storage failure.
FlushFails == worker["flush"].pc = "insert" /\ dbFaults' > dbFaults

\* This step is a broadcast_tx.send that returned Err: nobody is subscribed.
BroadcastFails == worker["broadcast"].pc = "send" /\ rx_cnt(subs) = 0

\* This step is one of the anomaly detector in which a storage call failed.
DetFails == det # Unused /\ det'.faults > det.faults

\* This step is one of the embedding worker in which the embedder or a
\* storage call failed.
EmbFails == emb # Unused /\ emb'.faults > emb.faults

\* This step is a prune_old_metrics that failed.
RetFails == ret # Unused /\ ret'.faults > ret.faults

\* C30: every worker is always at a position of its loop from which its next
\* step can be taken (as long as ticks are followed), and the step in which
\* a storage call or the embedder fails leaves the worker at its ticker or
\* inside the same iteration, never outside its loop.
C30_WorkersSurviveErrors ==
  /\ [](/\ worker["flush"].pc \in {"tick", "pop", "insert"}
        /\ worker["flush"].pc = "tick" => ENABLED FlushTick
        /\ worker["flush"].pc = "insert" => ENABLED FlushInsert
        /\ worker["broadcast"].pc \in {"tick", "pop", "send"}
        /\ worker["broadcast"].pc = "tick" => ENABLED BroadcastTick
        /\ worker["broadcast"].pc = "send" => ENABLED BroadcastSend
        /\ det.pc \in {"unused", "tick", "workspace", "insert"}
        /\ (det.pc = "tick" /\ det.ticks < MaxDetTicks) => ENABLED DetTick
        /\ det.pc = "workspace" => ENABLED DetWorkspace
        /\ det.pc = "insert" => ENABLED DetInsert
        /\ emb.pc \in {"unused", "tick", "workspace", "item"}
        /\ emb.pc = "tick" => ENABLED EmbTick
        /\ emb.pc = "workspace" => ENABLED EmbWorkspace
        /\ emb.pc = "item" => ENABLED EmbItem
        /\ ret.pc \in {"unused", "sleep", "tick"}
        /\ (ret.pc = "tick" /\ ret.ticks < MaxRetTicks) => ENABLED RetTick)
  /\ [][/\ FlushFails => worker'["flush"].pc = "tick"
        /\ BroadcastFails => worker'["broadcast"].pc \in {"tick", "send"}
        /\ DetFails => det'.pc \in {"tick", "workspace", "insert"}
        /\ EmbFails => emb'.pc \in {"tick", "workspace", "item"}
        /\ RetFails => ret'.pc = "tick"]_vars

\* The pruner's first delete failed and it is back at its ticker, six hours
\* before its next tick is due.
C30_Witness ==
  /\ ret.pc = "tick"
  /\ ret.prunes = 1
  /\ ret.last = "Err"
  /\ ret.next_tick >= ret.now + RetentionPeriodSecs - 1


\* ================================================= producers and downstream
\* The pipeline with its downstream stalled: both workers take what they can
\* out of the buffer, and then the flush worker's insert_metrics_batch and
\* the broadcast worker's send loop make no progress, while the ingest calls
\* go on.
StalledNext ==
  \/ \E r \in Requests : Receive(r)
  \/ \E r \in Requests : Push(r)
  \/ FlushTick
  \/ FlushPop
  \/ BroadcastTick
  \/ BroadcastPop

SpecStalled == Init /\ [][StalledNext]_vars

\* C31: an ingest call that is past authentication can always take its next
\* try_push, whatever the buffer and the workers are doing; it makes one
\* try_push per submitted event (every event it has dealt with is counted as
\* ingested or as dropped, and it answers when none is left); and a worker
\* inside pop_batch can always take its next pop and holds no more than it
\* asked for.
C31_ProducersNeverWait ==
  /\ \A r \in Requests :
       /\ req[r].pc = "push" => (req[r].metrics # <<>> /\ ENABLED Push(r))
       /\ req[r].pc = "push" \/ req[r].status = 202
            => req[r].ingested + req[r].dropped + Len(req[r].metrics) = req[r].total
       /\ req[r].status = 202 => req[r].metrics = <<>>
  /\ worker["flush"].pc = "pop" => ENABLED FlushPop
  /\ worker["broadcast"].pc = "pop" => ENABLED BroadcastPop
  /\ Len(worker["flush"].batch) <= FlushBatchMax
  /\ Len(worker["broadcast"].batch) <= BroadcastBatchMax

\* Both workers are stalled with a batch in hand, the buffer is empty behind
\* them, and an ingest call is in the middle of its payload.
C31_Witness ==
  /\ worker["flush"].pc = "insert"
  /\ worker["broadcast"].pc = "send"
  /\ \E r \in Requests :
       req[r].pc = "push" /\ req[r].ingested + req[r].dropped > 0

\* ====================================================== error.rs: AppError
ErrorKinds ==
  {"DatabaseError", "Unauthorized", "InvalidRequest", "InternalError", "NotFound"}

\* Messages the handlers and the libraries put into an error.
ErrorMessages ==
  {"Missing Authorization header", "Invalid API key", "Invalid window: 2m",
   "from must be before to", "Embedding service not configured",
   "pool timed out", "expected value at line 1 column 1", ""}

\* The errors of the libraries that have a From conversion.
LibraryErrors == {"sqlx::Error", "serde_json::Error"}

AppError(kind, msg) == [kind |-> kind, msg |-> msg]

\* impl From<sqlx::Error> and impl From<serde_json::Error> for AppError.
from(source, msg) ==
  IF source = "sqlx::Error" THEN AppError("DatabaseError", msg)
                            ELSE AppError("InvalidRequest", msg)

\* Mutant: NotFound is answered as a bad request.
status_code_not_found_400(kind) ==
  CASE kind = "DatabaseError" -> 500
    [] kind = "Unauthorized" -> 401
    [] kind = "InvalidRequest" -> 400
    [] kind = "InternalError" -> 500
    [] kind = "NotFound" -> 400

\* The match of into_response: the StatusCode of each variant.
status_code(kind) ==
  CASE kind = "DatabaseError" -> 500
    [] kind = "Unauthorized" -> 401
    [] kind = "InvalidRequest" -> 400
    [] kind = "InternalError" -> 500
    [] kind = "NotFound" -> 404

NoResponse == [status |-> 0, body |-> [error |-> "", code |-> 0]]

\* AppError::into_response: (status, Json({"error": msg, "code": status})).
into_response(error) ==
  [status |-> status_code(error.kind),
   body |-> [error |-> error.msg, code |-> status_code(error.kind)]]

\* A handler's `?` on a library error: the From conversion.
ErrConvert ==
  /\ agg.pc = "library_error"
  /\ agg' = [agg EXCEPT !.pc = "error", !.error = from(agg.source, agg.error.msg)]
  /\ UNCHANGED <<pipeVars, det, emb, hsh, ret>>

\* The handler returns Err(error) and axum calls into_response on it.
ErrRespond ==
  /\ agg.pc = "error"
  /\ agg' = [agg EXCEPT !.pc = "responded", !.response = into_response(agg.error)]
  /\ UNCHANGED <<pipeVars, det, emb, hsh, ret>>

ErrorsInit ==
  /\ PipelineInit
  /\ \/ \E kind \in ErrorKinds, msg \in ErrorMessages :
          agg = [pc |-> "error", source |-> "handler",
                 error |-> AppError(kind, msg), response |-> NoResponse]
     \/ \E source \in LibraryErrors, msg \in ErrorMessages :
          agg = [pc |-> "library_error", source |-> source,
                 error |-> AppError("none", msg), response |-> NoResponse]
  /\ det = Unused /\ emb = Unused /\ hsh = Unused /\ ret = Unused

ErrorsNext ==
  \/ ErrConvert
  \/ ErrRespond

SpecErrors == ErrorsInit /\ [][ErrorsNext]_vars

\* C32: the response made of an error has the status of the error's kind
\* (DatabaseError and InternalError 500, Unauthorized 401, InvalidRequest
\* 400, NotFound 404), its body's error field is the error's message and its
\* body's code field is that status; a storage error converted by `?` is a
\* DatabaseError and a JSON error an InvalidRequest.
C32_ErrorResponse ==
  /\ agg.pc = "responded"
       => /\ agg.error.kind \in {"DatabaseError", "InternalError"}
               => agg.response.status = 500
          /\ agg.error.kind = "Unauthorized" => agg.response.status = 401
          /\ agg.error.kind = "InvalidRequest" => agg.response.status = 400
          /\ agg.error.kind = "NotFound" => agg.response.status = 404
          /\ agg.response.body.error = agg.error.msg
          /\ agg.response.body.code = agg.response.status
  /\ agg.pc # "library_error"
       => /\ agg.error.kind \in ErrorKinds
          /\ agg.source = "sqlx::Error" => agg.error.kind = "DatabaseError"
          /\ agg.source = "serde_json::Error" => agg.error.kind = "InvalidRequest"

\* A NotFound error has been answered with 404 and its message.
C32_Witness ==
  /\ agg.pc = "responded"
  /\ agg.error = AppError("NotFound", "Invalid API key")
  /\ agg.response = [status |-> 404,
                     body |-> [error |-> "Invalid API key", code |-> 404]]

\* ============================================ routes: get_recent_metrics
\* unwrap_or(100) and min(1000) of get_recent_metrics.
DefaultLimit == 100
MaxLimit == 1000

\* The limit parameter of the request, an Option<i64>: absent, or a count
\* below, at and above each edge of the computation.
LimitParams ==
  {NoTime} \cup {Some(n) : n \in {-(MaxLimit + 1), -1, 0, 1, 2,
                                  DefaultLimit - 1, DefaultLimit, MaxLimit - 1,
                                  MaxLimit, MaxLimit + 1, MaxLimit * MaxLimit}}

\* How many rows the store holds for the workspace.
RecentRowCounts == {0, 1, 2, MaxLimit + 1}

\* let limit = params.limit.unwrap_or(100).min(1000);
effective_limit(param) == Min(unwrap_or(param, DefaultLimit), MaxLimit)

\* PostgreSQL's LIMIT $2: a negative count is rejected ("LIMIT must not be
\* negative"), any other count returns at most that many rows.
limit_rejected(limit) == limit < 0

\* get_recent_metrics of the route up to the call of the store.
RecentCall ==
  /\ agg.pc = "received"
  /\ agg' = [agg EXCEPT !.pc = "query", !.limit = effective_limit(agg.param)]
  /\ UNCHANGED <<pipeVars, det, emb, hsh, ret>>

\* Database::get_recent_metrics and the response: Err becomes a
\* DatabaseError by `?`, Ok the rows with their count.
RecentAnswer ==
  /\ agg.pc = "query"
  /\ \E failed \in {FALSE, TRUE} :
       IF failed \/ limit_rejected(agg.limit)
       THEN agg' = [agg EXCEPT !.pc = "done", !.error = "DatabaseError",
                               !.status = status_code("DatabaseError")]
       ELSE agg' = [agg EXCEPT !.pc = "done", !.status = 200,
                               !.count = Min(agg.limit, agg.rows)]
  /\ UNCHANGED <<pipeVars, det, emb, hsh, ret>>

RecentInit ==
  /\ PipelineInit
  /\ \E param \in LimitParams, rows \in RecentRowCounts :
       agg = [pc |-> "received", param |-> param, rows |-> rows, limit |-> 0,
              status |-> 0, error |-> "none", count |-> 0]
  /\ det = Unused /\ emb = Unused /\ hsh = Unused /\ ret = Unused

RecentNext ==
  \/ RecentCall
  \/ RecentAnswer

SpecRecent == RecentInit /\ [][RecentNext]_vars

\* C33: the limit passed to the store is a row count between 0 and 1000,
\* and it is 100 when the request gives none.
C33_EffectiveLimitValid ==
  agg.pc \in {"query", "done"}
    => /\ agg.limit \in 0..MaxLimit
       /\ ~agg.param.some => agg.limit = DefaultLimit

\* ============================================ the detector and the live path
\* The detector next to the live path: one-metric ingest calls, the broadcast
\* worker, connections that receive, and the detector's three steps.  The
\* calls, the connections and the detector's ticks are fewer than where each
\* is followed alone.
MaxDetectEvents == 1
DetectSubscribers == {"s1"}
MaxDetectTicks == 1

DetectLiveNext ==
  \/ Cardinality(accepted \cup rejected) < MaxDetectEvents /\ LiveIngest
  \/ BroadcastTick
  \/ BroadcastPop
  \/ BroadcastSend
  \/ \E s \in DetectSubscribers : Connect(s)
  \/ \E s \in DetectSubscribers : SendTaskRecv(s)
  \/ det.ticks < MaxDetectTicks /\ DetTick
  \/ DetWorkspace
  \/ DetInsert

SpecDetectLive == AnomalyInit /\ [][DetectLiveNext]_vars

C35_AcceptedConserved ==
  /\ Cardinality(accepted)
       = Len(queue) + Len(popLog["flush"]) + Len(popLog["broadcast"])
  /\ accepted = Range(queue) \cup Range(popLog["flush"]) \cup Range(popLog["broadcast"])
  /\ Range(queue) \cap Range(popLog["flush"]) = {}
  /\ Range(queue) \cap Range(popLog["broadcast"]) = {}
  /\ Range(popLog["flush"]) \cap Range(popLog["broadcast"]) = {}
  /\ NoDuplicates(queue)
  /\ NoDuplicates(popLog["flush"])
  /\ NoDuplicates(popLog["broadcast"])

\* Accepted events are in all three places at once, and one more was refused.
C35_Witness ==
  /\ queue # <<>>
  /\ popLog["flush"] # <<>>
  /\ popLog["broadcast"] # <<>>
  /\ rejected # {}

\* The whole path of an event: one-metric ingest calls, both workers, and
\* connections that receive.
MaxDeliverEvents == 4

DeliverNext ==
  \/ Cardinality(accepted \cup rejected) < MaxDeliverEvents /\ LiveIngest
  \/ FlushTick
  \/ FlushPop
  \/ FlushInsert
  \/ BroadcastTick
  \/ BroadcastPop
  \/ BroadcastSend
  \/ \E s \in Subscribers : Connect(s)
  \/ \E s \in Subscribers : SendTaskRecv(s)

SpecDeliver == Init /\ [][DeliverNext]_vars

\* The metrics of the items published on the live channel.
PublishedMetrics == {item[2] : item \in Range(published)}

\* C36: an event is inserted at most once (a batch about to be inserted has
\* every event once and none that is stored already), is published at most
\* once and is written to a connection at most once; what is stored,
\* published or written was accepted by try_push, and an event that was
\* counted as dropped is neither stored nor published.
C36_AtMostOnceAndAccepted ==
  /\ NoDuplicates(worker["flush"].batch)
  /\ Range(worker["flush"].batch) \cap stored = {}
  /\ NoDuplicates(published)
  /\ \A s \in Subscribers :
       /\ NoDuplicates(subs[s].frames)
       /\ Range(subs[s].frames) \subseteq PublishedMetrics
  /\ stored \subseteq accepted
  /\ PublishedMetrics \subseteq accepted
  /\ rejected \cap (stored \cup PublishedMetrics) = {}
  /\ rejected \cap accepted = {}

\* One event was dropped, another is stored, and a third has been written
\* to a connection.
C36_Witness ==
  /\ rejected # {}
  /\ stored # {}
  /\ \E s \in Subscribers : subs[s].frames # <<>>

\* ===================================================== the end of a handler
\* C37: once a handler has returned, both of its tasks have stopped: the
\* outbound task is no longer at its recv of the live channel and the inbound
\* task is no longer reading the socket.
C37_TasksStopWithHandler ==
  \A s \in Subscribers :
    subs[s].handler = "returned"
      => (finished(subs[s].send_task) /\ finished(subs[s].recv_task))

\* ================================================== the detector's look-back
\* C38: no stored metric has two anomaly rows: no two rows of
\* query_anomalies name the same metric.
C38_OneAnomalyPerMetric ==
  \A i, j \in 1..Len(det.anomalies) :
    i # j => det.anomalies[i].metric_id # det.anomalies[j].metric_id

\* ================================================ the channel and its handlers
\* C39: while a handler is running the live channel is not closed: a Sender
\* is left, and no connection's recv returns Closed or has returned it.
C39_OpenWhileHandlerRuns ==
  (\E s \in Subscribers : subs[s].handler = "select")
    => /\ senders # {}
       /\ \A t \in Subscribers :
            /\ recv(chan, subs[t].next, senders = {}).kind # "closed"
            /\ subs[t].send_task # "closed"

\* The process has dropped every Sender of its own, and the one handler
\* that is still running holds the only one left.
C39_Witness ==
  /\ senders = {"s1"}
  /\ subs["s1"].handler = "select"
  /\ subs["s2"].handler = "dropped"

\* ================================================== duration_ms in storage
\* The width of duration_ms: u64 in QueryMetric and i64 in the BIGINT column,
\* scaled from 64 bits.
DurationBits == 8

\* Every u64.
Durations == 0..(2^DurationBits - 1)

\* `metric.duration_ms as i64`: the same bits, read as two's complement.
as_i64(u) == IF u >= 2^(DurationBits - 1) THEN u - 2^DurationBits ELSE u

\* `row.get::<i64, _>("duration_ms") as u64`: the same bits, read as unsigned.
as_u64(i) == IF i < 0 THEN i + 2^DurationBits ELSE i

\* insert_metric / insert_metrics_batch: .bind(metric.duration_ms as i64).
DurInsert ==
  /\ agg.pc = "accepted"
  /\ agg' = [agg EXCEPT !.pc = "stored", !.written = as_i64(agg.duration_ms)]
  /\ UNCHANGED <<pipeVars, det, emb, hsh, ret>>

\* get_recent_metrics: the row's duration_ms becomes the QueryMetric's.
DurRead ==
  /\ agg.pc = "stored"
  /\ agg' = [agg EXCEPT !.pc = "read", !.read = as_u64(agg.written)]
  /\ UNCHANGED <<pipeVars, det, emb, hsh, ret>>

\* An event as ingest deserialized it: any u64 is taken.
DurationInit ==
  /\ PipelineInit
  /\ \E d \in Durations :
       agg = [pc |-> "accepted", duration_ms |-> d, written |-> 0, read |-> 0]
  /\ det = Unused /\ emb = Unused /\ hsh = Unused /\ ret = Unused

DurationNext ==
  \/ DurInsert
  \/ DurRead

SpecDuration == DurationInit /\ [][DurationNext]_vars

\* C40: the duration written by the insert is non-negative, and the duration
\* read back is the one that was submitted.
C40_DurationSurvives ==
  /\ agg.pc \in {"stored", "read"} => agg.written >= 0
  /\ agg.pc = "read" => agg.read = agg.duration_ms

====
